---- MODULE Spec2Model ----
(***************************************************************************)
(* Stack cleanup helpers of eps-cdk-utils: deleteUnusedMainStacks and      *)
(* deleteUnusedPrStacks (packages/cdkConstructs/src/stacks/                 *)
(* deleteUnusedStacks.ts).  One run of one sweep is modelled as a process  *)
(* whose position (pc) moves through the awaits of the code; CloudFormation,*)
(* Route 53, the APIM status endpoint and GitHub are the environment.      *)
(* Strings are sequences of one-character strings, so that the regular     *)
(* expressions, replaceAll, startsWith and includes are computed, not      *)
(* assumed.                                                                *)
(***************************************************************************)
EXTENDS Integers, Sequences, FiniteSets, TLC

(***************************************************************************)
(* Bounds of the model                                                     *)
(***************************************************************************)
\* largest number of stack summaries CloudFormation holds
MaxStacks == 3
\* number of summaries / record sets one page of a listing carries
PageSize == 2
\* largest number of changes of a change set, and of waivers given
MaxChanges == 2
MaxWaivers == 2
\* largest number of pages of a listing of stacks
MaxPages == 3
\* largest length of a version string after its first word
MaxVersionLen == 3
\* largest number of runs one after the other
MaxRuns == 2

(***************************************************************************)
(* Program constants                                                       *)
(***************************************************************************)
\* isEmbargoed: 24 * 60 * 60 * 1000
EmbargoMs == 24 * 60 * 60 * 1000
\* deleteStack: setTimeout(resolve, 60_000)
CooldownMs == 60000

(***************************************************************************)
(* Strings                                                                 *)
(***************************************************************************)
Digits == {"0", "1", "2", "3", "4", "5", "6", "7", "8", "9"}
LowerCase == {"a", "b", "c", "d", "e", "f", "g", "h", "i", "j", "k", "l", "m",
              "n", "o", "p", "q", "r", "s", "t", "u", "v", "w", "x", "y", "z"}
\* the character class [\da-z-] of getVersion's pattern
VersionChars == Digits \cup LowerCase \cup {"-"}

\* the value of an absent string (undefined / null)
Null == <<"<null>">>

\* String.prototype.replaceAll(".", "-")
replaceAllDots(s) == [k \in 1..Len(s) |-> IF s[k] = "." THEN "-" ELSE s[k]]

\* String.prototype.startsWith
startsWith(s, p) == Len(p) <= Len(s) /\ SubSeq(s, 1, Len(p)) = p

\* String.prototype.includes
includes(s, sub) ==
  \E k \in 0..(Len(s) - Len(sub)) : SubSeq(s, k + 1, k + Len(sub)) = sub

\* the rest of s after its first n characters
dropFirst(s, n) == SubSeq(s, n + 1, Len(s))

\* every character of s is in the class cs (cs*, the empty string included)
allIn(s, cs) == \A k \in 1..Len(s) : s[k] \in cs

\* length of the longest prefix of s made of digits (a greedy \d+)
digitPrefixLen(s) ==
  IF \A k \in 1..Len(s) : s[k] \in Digits THEN Len(s)
  ELSE (CHOOSE k \in 1..Len(s) :
          s[k] \notin Digits /\ \A j \in 1..(k - 1) : s[j] \in Digits) - 1

DashSandbox == <<"-", "s", "a", "n", "d", "b", "o", "x">>
Dash == <<"-">>
PrDash == <<"p", "r", "-">>

(***************************************************************************)
(* getVersion                                                              *)
(* ^${baseStackName}(?<sandbox>-sandbox)?-(?<version>[\da-z-]+)?$          *)
(* The optional groups are greedy: the match with the sandbox group is     *)
(* tried first, and only when it fails the match without it.  An empty     *)
(* version group is undefined.                                             *)
(***************************************************************************)
NoVersion == [version |-> Null, isSandbox |-> FALSE]

getVersionMatch(stackName, baseStackName) ==
  LET withSandbox == baseStackName \o DashSandbox \o Dash
      without == baseStackName \o Dash
  IN IF startsWith(stackName, withSandbox)
        /\ allIn(dropFirst(stackName, Len(withSandbox)), VersionChars)
     THEN [matched |-> TRUE, sandbox |-> TRUE,
           version |-> dropFirst(stackName, Len(withSandbox))]
     ELSE IF startsWith(stackName, without)
             /\ allIn(dropFirst(stackName, Len(without)), VersionChars)
     THEN [matched |-> TRUE, sandbox |-> FALSE,
           version |-> dropFirst(stackName, Len(without))]
     ELSE [matched |-> FALSE, sandbox |-> FALSE, version |-> <<>>]

\* getVersion without the test version.startsWith("pr-")
getVersionOfAnyToken(stackName, baseStackName) ==
  LET m == getVersionMatch(stackName, baseStackName)
  IN IF ~m.matched \/ m.version = <<>>
     THEN NoVersion
     ELSE [version |-> m.version, isSandbox |-> m.sandbox]

\* getVersion(stackName, baseStackName): null is NoVersion
getVersion(stackName, baseStackName) ==
  LET m == getVersionMatch(stackName, baseStackName)
  IN IF ~m.matched \/ m.version = <<>> \/ startsWith(m.version, PrDash)
     THEN NoVersion
     ELSE [version |-> m.version, isSandbox |-> m.sandbox]

(***************************************************************************)
(* isClosedPullRequest, the pattern                                        *)
(* ^${baseStackName}-pr-(?<pullRequestId>\d+)(-sandbox)?$                  *)
(* The result is the pull request id, or Null when the name does not match.*)
(***************************************************************************)
\* the pattern without its optional group (-sandbox)?
pullRequestIdNoSandbox(stackName, baseStackName) ==
  LET prefix == baseStackName \o Dash \o PrDash
      rest == dropFirst(stackName, Len(prefix))
      n == digitPrefixLen(rest)
      tail == dropFirst(rest, n)
  IN IF startsWith(stackName, prefix) /\ n >= 1 /\ tail = <<>>
     THEN SubSeq(rest, 1, n)
     ELSE Null

pullRequestId(stackName, baseStackName) ==
  LET prefix == baseStackName \o Dash \o PrDash
      rest == dropFirst(stackName, Len(prefix))
      n == digitPrefixLen(rest)
      tail == dropFirst(rest, n)
  IN IF startsWith(stackName, prefix) /\ n >= 1 /\ tail \in {<<>>, DashSandbox}
     THEN SubSeq(rest, 1, n)
     ELSE Null

(***************************************************************************)
(* The names the environment uses.  A stack summary carries the index of   *)
(* its name in StackNames; the characters are what the code parses.        *)
(***************************************************************************)
\* the baseStackName argument of both sweeps
BaseName == <<"a", "p", "i">>
\* the hosted zone name, as it ends a record name
ZoneSuffix == <<".", "d", "e", "v", ".">>

StackNames == <<
  <<"a", "p", "i", "-", "v", "1", "-", "2", "-", "3">>,
  <<"a", "p", "i", "-", "v", "1", "-", "2">>,
  <<"a", "p", "i", "-", "s", "a", "n", "d", "b", "o", "x", "-", "v", "1", "-", "2">>,
  <<"a", "p", "i", "-", "p", "r", "-", "1", "2">>,
  <<"a", "p", "i", "-", "p", "r", "-", "1", "2", "3">>,
  <<"a", "p", "i", "-", "p", "r", "-", "1", "2", "-", "s", "a", "n", "d", "b", "o", "x">>,
  <<"a", "p", "i">>,
  <<"a", "p", "i", "-", "s", "a", "n", "d", "b", "o", "x", "-", "p", "r", "-", "1">> >>

NameOf(n) == StackNames[n]

\* What each name is, stated independently of the parsing code: the shape
\* of the unit, its version (dots already hyphens) or pull request id.
UnitShapes == <<
  [kind |-> "VERSIONED", sandbox |-> FALSE, id |-> <<"v", "1", "-", "2", "-", "3">>],
  [kind |-> "VERSIONED", sandbox |-> FALSE, id |-> <<"v", "1", "-", "2">>],
  [kind |-> "VERSIONED", sandbox |-> TRUE, id |-> <<"v", "1", "-", "2">>],
  [kind |-> "PULL_REQUEST", sandbox |-> FALSE, id |-> <<"1", "2">>],
  [kind |-> "PULL_REQUEST", sandbox |-> FALSE, id |-> <<"1", "2", "3">>],
  [kind |-> "PULL_REQUEST", sandbox |-> TRUE, id |-> <<"1", "2">>],
  [kind |-> "UNRECOGNIZED", sandbox |-> FALSE, id |-> <<>>],
  [kind |-> "UNRECOGNIZED", sandbox |-> TRUE, id |-> <<>>] >>

ShapeOf(n) == UnitShapes[n]

\* version numbers the status endpoint reports
VersionNumbers == { <<"v", "1", ".", "2", ".", "3">>, <<"v", "1", ".", "2">> }

\* ActiveVersions: sandboxEnvVersion is null when there is no sandbox
\* deployment or its lookup failed
ActiveVersionsValues ==
  { [baseEnvVersion |-> v, sandboxEnvVersion |-> s] :
      v \in VersionNumbers, s \in VersionNumbers \cup {Null} }

(***************************************************************************)
(* Time, in milliseconds.  A run starts at StartTime.                      *)
(***************************************************************************)
StartTime == 3 * EmbargoMs
AgeFresh == 60 * 60 * 1000
AgeAlmost == EmbargoMs - 1
AgeSettled == EmbargoMs

Summary(n, status, age) ==
  [StackName |-> n, StackStatus |-> status, CreationTime |-> StartTime - age]

\* The stack summaries CloudFormation may hold, in listing order
StackPool == <<
  Summary(1, "DELETE_COMPLETE", AgeSettled),
  Summary(1, "CREATE_COMPLETE", AgeFresh),
  Summary(1, "CREATE_COMPLETE", AgeAlmost),
  Summary(1, "CREATE_COMPLETE", AgeSettled),
  Summary(2, "DELETE_COMPLETE", AgeSettled),
  Summary(2, "CREATE_COMPLETE", AgeFresh),
  Summary(2, "CREATE_COMPLETE", AgeAlmost),
  Summary(2, "CREATE_COMPLETE", AgeSettled),
  Summary(3, "CREATE_COMPLETE", AgeFresh),
  Summary(3, "CREATE_COMPLETE", AgeSettled),
  Summary(4, "DELETE_COMPLETE", AgeSettled),
  Summary(4, "CREATE_COMPLETE", AgeFresh),
  Summary(5, "CREATE_COMPLETE", AgeSettled),
  Summary(6, "CREATE_COMPLETE", AgeSettled),
  Summary(7, "CREATE_COMPLETE", AgeSettled),
  Summary(8, "CREATE_COMPLETE", AgeSettled) >>

IsLive(stack) == stack.StackStatus # "DELETE_COMPLETE"

RECURSIVE Ascending(_)
\* the elements of a set of numbers, smallest first
Ascending(S) ==
  IF S = {} THEN <<>>
  ELSE LET m == CHOOSE x \in S : \A y \in S : x <= y
       IN <<m>> \o Ascending(S \ {m})

Reverse(s) == [k \in 1..Len(s) |-> s[Len(s) + 1 - k]]

\* CloudFormation keeps one live stack per name; deleted ones stay listed
OneLivePerName(S) ==
  \A a, b \in S :
    (a # b /\ StackPool[a].StackName = StackPool[b].StackName)
      => ~(IsLive(StackPool[a]) /\ IsLive(StackPool[b]))

\* The contents of CloudFormation: up to MaxStacks summaries of the pool,
\* listed in pool order or in the reverse order (ListStacks promises none)
Stores ==
  LET subsets == { S \in SUBSET (1..Len(StackPool)) :
                     Cardinality(S) <= MaxStacks /\ OneLivePerName(S) }
      listed(S) == [k \in 1..Cardinality(S) |-> StackPool[Ascending(S)[k]]]
  IN { listed(S) : S \in subsets } \cup { Reverse(listed(S)) : S \in subsets }

\* A record set of the hosted zone: the name is the stack name followed by
\* the zone name
RecordSet(n, type) == [Name |-> n, Type |-> type]
RecordName(r) == NameOf(r.Name) \o ZoneSuffix

RECURSIVE RecordsFor(_)
\* every live stack has a CNAME record and a TXT record in the zone
RecordsFor(stacks) ==
  IF stacks = <<>> THEN <<>>
  ELSE (IF IsLive(Head(stacks))
        THEN << RecordSet(Head(stacks).StackName, "CNAME"),
                RecordSet(Head(stacks).StackName, "TXT") >>
        ELSE <<>>) \o RecordsFor(Tail(stacks))

\* The zone Route 53 lists first when none is named hostedZoneName: it
\* holds records of another environment's stacks of the same names
OtherZoneRecords == << RecordSet(2, "CNAME"), RecordSet(4, "CNAME") >>

\* the environments of APIGEE_ENVIRONMENT
ApigeeEnvironments == {"int", "internal-dev", "prod"}

(***************************************************************************)
(* State                                                                   *)
(***************************************************************************)
VARIABLES
  store,           \* CloudFormation: the stack summaries ListStacks returns
  zoneRecs,        \* Route 53: the record sets of the zone named hostedZoneName
  otherZoneRecs,   \* Route 53: the record sets of the zone listed after it
  sweep,           \* "none", "main" (deleteUnusedMainStacks), "pr" (deleteUnusedPrStacks)
  pc,              \* the await the run is at
  hostedZoneName,  \* TRUE when the optional argument is given
  hostedZoneId,    \* "undefined" or the zone id
  cnameRecords,    \* the CNAME records read by getHostedZoneInfo
  nextRecordName,  \* getHostedZoneInfo: records already read (continuation)
  recordSetReads,  \* ListResourceRecordSetsCommand sends
  apigeeEnv,       \* getActiveApiVersions: process.env.APIGEE_ENVIRONMENT
  statusFetches,   \* getActiveApiVersion: the domain fetched, response.ok or not
  activeVersions,  \* the result of getActiveVersions()
  allStacks,       \* the result of listAllStacks
  nextToken,       \* listAllStacks: summaries already read (continuation)
  activeVersionDeployed, \* CreationTime of the stack found, or -1 (undefined)
  idx,             \* position of the for loop in allStacks
  now,             \* Date.now()
  deleteCalls,     \* DeleteStackCommand sends: position, name, time
  changeCalls,     \* ChangeResourceRecordSetsCommand sends: the records of each
  prReads,         \* GitHub reads: position in allStacks and the outcome
  changeSet,       \* checkDestructiveChangeSet: the DescribeChangeSet response
  allowedChanges,  \* checkDestructiveChangeSet: the waivers given
  remainingChanges,\* checkDestructiveChangeSet: the changes not waived
  checkOutcome,    \* checkDestructiveChangeSet: "pending", "returned", "thrown"
  pages,           \* CloudFormation: the responses of ListStacks, page by page
  listRequests,    \* listAllStacks: the NextToken of each ListStacksCommand sent
  version,         \* calculateVersionedStackName: the version argument
  versionedName,   \* calculateVersionedStackName: the name returned
  parsedVersion,     \* getVersion of that name
  namingStep,      \* "version", "named", "parsed"
  liveVersions,    \* APIM: the versions the status endpoints report just now
  other,           \* the run overlapping this one: its sweep, await and locals
  runs             \* the runs that have ended: sweep, await and locals of each

vars == << store, zoneRecs, otherZoneRecs, sweep, pc, hostedZoneName,
           hostedZoneId, cnameRecords, nextRecordName, recordSetReads,
           apigeeEnv, statusFetches, activeVersions, allStacks, nextToken,
           activeVersionDeployed, idx, now, deleteCalls, changeCalls, prReads,
           changeSet, allowedChanges, remainingChanges, checkOutcome,
           pages, listRequests, version, versionedName, parsedVersion,
           namingStep, liveVersions, other, runs >>

envVars == << store, zoneRecs, otherZoneRecs >>
zoneVars == << hostedZoneId, cnameRecords, nextRecordName, recordSetReads >>
versionVars == << apigeeEnv, statusFetches, activeVersions >>
listVars == << allStacks, nextToken >>
callVars == << deleteCalls, changeCalls, prReads >>
pageVars == << pages, listRequests >>
namingVars == << version, versionedName, parsedVersion, namingStep >>
waiverVars == << changeSet, allowedChanges, remainingChanges, checkOutcome >>
\* the state of the helpers that are not part of a sweep
beside == << waiverVars, pageVars, namingVars, liveVersions, other, runs >>
\* the state of the sweeps and of their environment
sweepVars == << store, zoneRecs, otherZoneRecs, sweep, pc, hostedZoneName,
                hostedZoneId, cnameRecords, nextRecordName, recordSetReads,
                apigeeEnv, statusFetches, activeVersions, allStacks, nextToken,
                activeVersionDeployed, idx, now, deleteCalls, changeCalls,
                prReads >>

Undefined == -1

\* the values of pc at which the promise of the sweep is rejected, named
\* after the call that rejected; "done" and "skipped" are the two returns
Rejected == {"rejected_ListHostedZonesByName", "rejected_ListResourceRecordSets",
             "rejected_getActiveVersions", "rejected_ListStacks",
             "rejected_isClosedPullRequest", "rejected_DeleteStack",
             "rejected_ChangeResourceRecordSets"}
NoActiveVersions == [baseEnvVersion |-> Null, sandboxEnvVersion |-> Null]

\* what a GitHub read can come to: a success response with a state, a
\* non-success response, a rejected fetch, a body that is not JSON
PrOutcomes == {"closed", "open", "nostate", "notok", "neterr", "badjson"}

\* checkDestructiveChangeSet has not been called
NoWaiverCheck ==
  /\ changeSet = [CreationTime |-> Undefined, StackName |-> "none", Changes |-> <<>>]
  /\ allowedChanges = <<>>
  /\ remainingChanges = <<>>
  /\ checkOutcome = "pending"

\* no stack name is being calculated
NoNaming ==
  /\ version = <<>>
  /\ versionedName = <<>>
  /\ parsedVersion = NoVersion
  /\ namingStep = "version"

\* listAllStacks is not followed page by page
NoPages ==
  /\ pages = <<>>
  /\ listRequests = <<>>

\* the variables of a run before it has done anything
FreshRun ==
  /\ hostedZoneName = FALSE
  /\ hostedZoneId = "undefined"
  /\ cnameRecords = <<>>
  /\ nextRecordName = 0
  /\ recordSetReads = 0
  /\ apigeeEnv = "undefined"
  /\ statusFetches = <<>>
  /\ activeVersions = NoActiveVersions
  /\ allStacks = <<>>
  /\ nextToken = 0
  /\ activeVersionDeployed = Undefined
  /\ idx = 0
  /\ now = StartTime
  /\ deleteCalls = <<>>
  /\ changeCalls = <<>>
  /\ prReads = <<>>

\* the sweep, the await and the locals of a run that has not been started
IdleRun ==
  [sweep |-> "none", pc |-> "idle", hostedZoneName |-> FALSE,
   hostedZoneId |-> "undefined", cnameRecords |-> <<>>, nextRecordName |-> 0,
   recordSetReads |-> 0, apigeeEnv |-> "undefined", statusFetches |-> <<>>,
   activeVersions |-> NoActiveVersions, allStacks |-> <<>>, nextToken |-> 0,
   activeVersionDeployed |-> Undefined, idx |-> 0, deleteCalls |-> <<>>,
   changeCalls |-> <<>>, prReads |-> <<>>]

\* one run of one sweep, nothing promoted meanwhile
NoCompany ==
  /\ liveVersions = NoActiveVersions
  /\ other = IdleRun
  /\ runs = <<>>

\* no sweep has been started
NoRun ==
  /\ sweep = "none"
  /\ pc = "idle"
  /\ FreshRun
  /\ NoCompany

Init ==
  /\ store \in Stores
  /\ zoneRecs \in {RecordsFor(store), <<>>}
  /\ otherZoneRecs = OtherZoneRecords
  /\ NoRun
  /\ NoWaiverCheck
  /\ NoPages
  /\ NoNaming

(***************************************************************************)
(* Pure helpers of the sweeps                                              *)
(***************************************************************************)
\* isEmbargoed holding at the age of 24 hours too
isEmbargoedInclusive(deployDate, t) ==
  deployDate # Undefined /\ t - deployDate <= EmbargoMs

\* isEmbargoed with the window written in seconds, not milliseconds
isEmbargoedInSeconds(deployDate, t) ==
  deployDate # Undefined /\ t - deployDate < 24 * 60 * 60

\* isEmbargoed(deployDate), Date.now() being t
isEmbargoed(deployDate, t) ==
  deployDate # Undefined /\ t - deployDate < EmbargoMs

\* isSupersededVersion comparing with the active version as reported, its
\* dots not replaced
isSupersededVersionDotted(stack, base, versions, t) ==
  LET versionInfo == getVersion(NameOf(stack.StackName), base)
      currentVersion == IF versionInfo.isSandbox THEN versions.sandboxEnvVersion
                        ELSE versions.baseEnvVersion
  IN IF versionInfo = NoVersion THEN FALSE
     ELSE IF isEmbargoed(stack.CreationTime, t) THEN FALSE
     ELSE IF currentVersion = Null THEN FALSE
     ELSE versionInfo.version # currentVersion

\* isSupersededVersion taking an unknown active version for a different one
isSupersededVersionNullDiffers(stack, base, versions, t) ==
  LET versionInfo == getVersion(NameOf(stack.StackName), base)
      currentVersion == IF versionInfo.isSandbox THEN versions.sandboxEnvVersion
                        ELSE versions.baseEnvVersion
  IN IF versionInfo = NoVersion THEN FALSE
     ELSE IF isEmbargoed(stack.CreationTime, t) THEN FALSE
     ELSE versionInfo.version # replaceAllDots(currentVersion)

\* isSupersededVersion(stack, baseStackName, activeVersions) at time t
isSupersededVersion(stack, base, versions, t) ==
  LET versionInfo == getVersion(NameOf(stack.StackName), base)
      currentVersion == IF versionInfo.isSandbox THEN versions.sandboxEnvVersion
                        ELSE versions.baseEnvVersion
  IN IF versionInfo = NoVersion THEN FALSE
     ELSE IF isEmbargoed(stack.CreationTime, t) THEN FALSE
     ELSE IF currentVersion = Null THEN FALSE
     ELSE versionInfo.version # replaceAllDots(currentVersion)

\* allStacks.find(...)?.CreationTime of deleteUnusedMainStacks
findActiveVersionDeployed(stacks, base, versions) ==
  LET isActive(stack) ==
        LET versionInfo == getVersion(NameOf(stack.StackName), base)
        IN /\ versionInfo # NoVersion
           /\ ~versionInfo.isSandbox
           /\ versionInfo.version = replaceAllDots(versions.baseEnvVersion)
      hits == { k \in 1..Len(stacks) : isActive(stacks[k]) }
  IN IF hits = {} THEN Undefined
     ELSE stacks[CHOOSE k \in hits : \A j \in hits : k <= j].CreationTime

\* the filter keeping only the record named after the stack itself
toDeleteOwnRecord(records, stackName) ==
  SelectSeq(records, LAMBDA r : RecordName(r) = stackName \o ZoneSuffix)

\* cnameRecords.filter(r => r.Name?.includes(stackName))
toDelete(records, stackName) ==
  SelectSeq(records, LAMBDA r : includes(RecordName(r), stackName))

\* one page of a listing that has already returned `from` items
Page(items, from) ==
  SubSeq(items, from + 1, IF from + PageSize < Len(items) THEN from + PageSize
                          ELSE Len(items))

(***************************************************************************)
(* The two entry points                                                    *)
(***************************************************************************)
\* deleteUnusedMainStacks(baseStackName, getActiveVersions, hostedZoneName?)
StartMainSweep ==
  /\ pc = "idle"
  /\ sweep' = "main"
  /\ hostedZoneName' \in BOOLEAN
  /\ pc' = "zone"
  /\ UNCHANGED << beside, envVars, zoneVars, versionVars, listVars,
                  activeVersionDeployed, idx, now, callVars >>

\* deleteUnusedPrStacks(baseStackName, repoName, hostedZoneName?)
StartPrSweep ==
  /\ pc = "idle"
  /\ sweep' = "pr"
  /\ hostedZoneName' \in BOOLEAN
  /\ pc' = "zone"
  /\ UNCHANGED << beside, envVars, zoneVars, versionVars, listVars,
                  activeVersionDeployed, idx, now, callVars >>

\* where a sweep goes on after getHostedZoneInfo
AfterZone == IF sweep = "main" THEN "versions" ELSE "list"

(***************************************************************************)
(* getHostedZoneInfo                                                       *)
(***************************************************************************)
\* no zone name: nothing is asked of Route 53
NoHostedZoneName ==
  /\ pc = "zone"
  /\ ~hostedZoneName
  /\ pc' = AfterZone
  /\ UNCHANGED << beside, envVars, sweep, hostedZoneName, zoneVars, versionVars,
                  listVars, activeVersionDeployed, idx, now, callVars >>

\* the record sets Route 53 holds for a zone id
RecordSetsOf(zoneId) == IF zoneId = "Z1" THEN zoneRecs ELSE otherZoneRecs

\* getHostedZoneInfo going on to list record sets when no zone was returned
ListHostedZonesByNameNoReturn ==
  /\ pc = "zone"
  /\ hostedZoneName
  /\ \E response \in {"rejects", "nozone", "zone", "otherzone"} :
       /\ pc' = CASE response = "rejects" -> "rejected_ListHostedZonesByName"
                  [] OTHER -> "records"
       /\ hostedZoneId' = CASE response = "zone" -> "Z1"
                            [] response = "otherzone" -> "Z2"
                            [] OTHER -> "undefined"
  /\ UNCHANGED << beside, envVars, sweep, hostedZoneName, cnameRecords, nextRecordName,
                  recordSetReads, versionVars, listVars, activeVersionDeployed,
                  idx, now, callVars >>

\* ListHostedZonesByNameCommand: it rejects, returns no zone, the zone of
\* that name first, or (no zone having that name) the zone that follows it;
\* hostedZoneId is response.HostedZones?.[0]?.Id
ListHostedZonesByName ==
  /\ pc = "zone"
  /\ hostedZoneName
  /\ \E response \in {"rejects", "nozone", "zone", "otherzone"} :
       /\ pc' = CASE response = "rejects" -> "rejected_ListHostedZonesByName"
                  [] response = "nozone" -> AfterZone
                  [] OTHER -> "records"
       /\ hostedZoneId' = CASE response = "zone" -> "Z1"
                            [] response = "otherzone" -> "Z2"
                            [] OTHER -> "undefined"
  /\ UNCHANGED << beside, envVars, sweep, hostedZoneName, cnameRecords, nextRecordName,
                  recordSetReads, versionVars, listVars, activeVersionDeployed,
                  idx, now, callVars >>

\* one turn of the do-while: ListResourceRecordSetsCommand
ListResourceRecordSets ==
  /\ pc = "records"
  /\ recordSetReads' = recordSetReads + 1
  /\ \/ /\ pc' = "rejected_ListResourceRecordSets"
        /\ UNCHANGED << cnameRecords, nextRecordName >>
     \/ LET page == Page(RecordSetsOf(hostedZoneId), nextRecordName)
            more == nextRecordName + Len(page) < Len(RecordSetsOf(hostedZoneId))
        IN /\ cnameRecords' =
                cnameRecords \o SelectSeq(page, LAMBDA r : r.Type = "CNAME")
           /\ nextRecordName' = nextRecordName + Len(page)
           /\ pc' = IF more THEN "records" ELSE AfterZone
  /\ UNCHANGED << beside, envVars, sweep, hostedZoneName, hostedZoneId, versionVars,
                  listVars, activeVersionDeployed, idx, now, callVars >>

(***************************************************************************)
(* getActiveVersions(): the callback is () => getActiveApiVersions(path)   *)
(***************************************************************************)
\* what a fetch of the _status endpoint comes to: a success response with a
\* version number, a non-success response, a rejected fetch
StatusOutcomes == VersionNumbers \cup {<<"notok">>, <<"neterr">>}

\* the sandbox domain asked after the base environment, "none" if none is
SandboxDomain(env) ==
  CASE env = "int" -> "sandbox"
    [] env = "internal-dev" -> "internal-dev-sandbox"
    [] OTHER -> "none"

\* getActiveApiVersions going on with no base version when its fetch fails
GetBaseEnvVersionSwallowed ==
  /\ pc = "versions"
  /\ \E env \in ApigeeEnvironments, outcome \in StatusOutcomes :
       /\ apigeeEnv' = env
       /\ statusFetches' = Append(statusFetches,
            [apimDomain |-> env, ok |-> outcome \in VersionNumbers])
       /\ activeVersions' =
            [baseEnvVersion |-> IF outcome \in VersionNumbers THEN outcome ELSE Null,
             sandboxEnvVersion |-> Null]
       /\ pc' = IF SandboxDomain(env) = "none" THEN "list" ELSE "sandboxVersion"
  /\ UNCHANGED << beside, envVars, sweep, hostedZoneName, zoneVars, listVars,
                  activeVersionDeployed, idx, now, callVars >>

\* getActiveApiVersion(apigeeEnv, basePath), awaited outside the try
GetBaseEnvVersion ==
  /\ pc = "versions"
  /\ \E env \in ApigeeEnvironments, outcome \in StatusOutcomes :
       /\ apigeeEnv' = env
       /\ statusFetches' = Append(statusFetches,
            [apimDomain |-> env, ok |-> outcome \in VersionNumbers])
       /\ IF outcome \in VersionNumbers
          THEN /\ activeVersions' = [baseEnvVersion |-> outcome,
                                     sandboxEnvVersion |-> Null]
               /\ pc' = IF SandboxDomain(env) = "none" THEN "list"
                        ELSE "sandboxVersion"
          ELSE /\ pc' = "rejected_getActiveVersions"
               /\ UNCHANGED activeVersions
  /\ UNCHANGED << beside, envVars, sweep, hostedZoneName, zoneVars, listVars,
                  activeVersionDeployed, idx, now, callVars >>

\* the fetch of the sandbox version with no catch around it
GetSandboxEnvVersionUncaught ==
  /\ pc = "sandboxVersion"
  /\ \E outcome \in StatusOutcomes :
       /\ statusFetches' = Append(statusFetches,
            [apimDomain |-> SandboxDomain(apigeeEnv),
             ok |-> outcome \in VersionNumbers])
       /\ IF outcome \in VersionNumbers
          THEN /\ activeVersions' = [activeVersions EXCEPT !.sandboxEnvVersion = outcome]
               /\ pc' = "list"
          ELSE /\ pc' = "rejected_getActiveVersions"
               /\ UNCHANGED activeVersions
  /\ UNCHANGED << beside, envVars, sweep, hostedZoneName, zoneVars, apigeeEnv, listVars,
                  activeVersionDeployed, idx, now, callVars >>

\* getActiveApiVersion("sandbox" | "internal-dev-sandbox", basePath) inside
\* try/catch: what it throws is logged and the version stays null
GetSandboxEnvVersion ==
  /\ pc = "sandboxVersion"
  /\ \E outcome \in StatusOutcomes :
       /\ statusFetches' = Append(statusFetches,
            [apimDomain |-> SandboxDomain(apigeeEnv),
             ok |-> outcome \in VersionNumbers])
       /\ activeVersions' =
            IF outcome \in VersionNumbers
            THEN [activeVersions EXCEPT !.sandboxEnvVersion = outcome]
            ELSE activeVersions
       /\ pc' = "list"
  /\ UNCHANGED << beside, envVars, sweep, hostedZoneName, zoneVars, apigeeEnv, listVars,
                  activeVersionDeployed, idx, now, callVars >>

\* await getActiveVersions() of deleteUnusedMainStacks
GetActiveVersions ==
  \/ GetBaseEnvVersion
  \/ GetSandboxEnvVersion

(***************************************************************************)
(* listAllStacks: one turn of the do-while, ListStacksCommand              *)
(***************************************************************************)
\* listAllStacks returning after its first page, NextToken not followed
ListStacksFirstPage ==
  /\ pc = "list"
  /\ \/ /\ pc' = "rejected_ListStacks"
        /\ UNCHANGED << listVars, idx >>
     \/ LET page == Page(store, nextToken)
        IN /\ allStacks' = allStacks \o page
           /\ nextToken' = nextToken + Len(page)
           /\ pc' = IF sweep = "main" THEN "guard" ELSE "loop"
           /\ idx' = 1
  /\ UNCHANGED << beside, envVars, sweep, hostedZoneName, zoneVars, versionVars,
                  activeVersionDeployed, now, callVars >>

ListStacks ==
  /\ pc = "list"
  /\ \/ /\ pc' = "rejected_ListStacks"
        /\ UNCHANGED << listVars, idx >>
     \/ LET page == Page(store, nextToken)
            more == nextToken + Len(page) < Len(store)
        IN /\ allStacks' = allStacks \o page
           /\ nextToken' = nextToken + Len(page)
           /\ pc' = IF more THEN "list"
                    ELSE IF sweep = "main" THEN "guard" ELSE "loop"
           /\ idx' = IF more THEN idx ELSE 1
  /\ UNCHANGED << beside, envVars, sweep, hostedZoneName, zoneVars, versionVars,
                  activeVersionDeployed, now, callVars >>

(***************************************************************************)
(* deleteUnusedMainStacks: the check of the active version's deployment    *)
(***************************************************************************)
SettlingGuard ==
  /\ pc = "guard"
  /\ LET deployed == findActiveVersionDeployed(allStacks, BaseName, activeVersions)
     IN /\ activeVersionDeployed' = deployed
        /\ pc' = IF isEmbargoed(deployed, now) THEN "skipped" ELSE "loop"
  /\ UNCHANGED << beside, envVars, sweep, hostedZoneName, zoneVars, versionVars,
                  listVars, idx, now, callVars >>

(***************************************************************************)
(* The for loops: one action examines one stack                            *)
(***************************************************************************)
\* the loop of deleteUnusedMainStacks without its test of StackStatus
MainLoopAnyStatus ==
  /\ pc = "loop"
  /\ sweep = "main"
  /\ IF idx > Len(allStacks)
     THEN pc' = "done" /\ idx' = idx
     ELSE IF ~isSupersededVersion(allStacks[idx], BaseName, activeVersions, now)
     THEN pc' = "loop" /\ idx' = idx + 1
     ELSE pc' = "delete" /\ idx' = idx
  /\ UNCHANGED << beside, envVars, sweep, hostedZoneName, zoneVars, versionVars,
                  listVars, activeVersionDeployed, now, callVars >>

\* deleteUnusedMainStacks, for (const stack of allStacks)
MainLoop ==
  /\ pc = "loop"
  /\ sweep = "main"
  /\ IF idx > Len(allStacks)
     THEN pc' = "done" /\ idx' = idx
     ELSE IF allStacks[idx].StackStatus = "DELETE_COMPLETE"
             \/ ~isSupersededVersion(allStacks[idx], BaseName, activeVersions, now)
     THEN pc' = "loop" /\ idx' = idx + 1
     ELSE pc' = "delete" /\ idx' = idx
  /\ UNCHANGED << beside, envVars, sweep, hostedZoneName, zoneVars, versionVars,
                  listVars, activeVersionDeployed, now, callVars >>

\* the loop of deleteUnusedPrStacks keeping the stacks isEmbargoed holds for
PrLoopEmbargoed ==
  /\ pc = "loop"
  /\ sweep = "pr"
  /\ IF idx > Len(allStacks)
     THEN pc' = "done" /\ idx' = idx /\ UNCHANGED prReads
     ELSE IF allStacks[idx].StackStatus = "DELETE_COMPLETE"
             \/ pullRequestId(NameOf(allStacks[idx].StackName), BaseName) = Null
     THEN pc' = "loop" /\ idx' = idx + 1 /\ UNCHANGED prReads
     ELSE \E outcome \in PrOutcomes :
            LET closed == outcome = "closed"
                             /\ ~isEmbargoed(allStacks[idx].CreationTime, now)
            IN /\ prReads' = Append(prReads, [pos |-> idx, outcome |-> outcome])
               /\ pc' = CASE outcome \in {"neterr", "badjson"} -> "rejected_isClosedPullRequest"
                          [] closed -> "delete"
                          [] OTHER -> "loop"
               /\ idx' = IF outcome \in {"neterr", "badjson"} \/ closed
                         THEN idx ELSE idx + 1
  /\ UNCHANGED << beside, envVars, sweep, hostedZoneName, zoneVars, versionVars,
                  listVars, activeVersionDeployed, now, deleteCalls,
                  changeCalls >>

\* the loop of deleteUnusedPrStacks without its test of StackStatus
PrLoopAnyStatus ==
  /\ pc = "loop"
  /\ sweep = "pr"
  /\ IF idx > Len(allStacks)
     THEN pc' = "done" /\ idx' = idx /\ UNCHANGED prReads
     ELSE IF pullRequestId(NameOf(allStacks[idx].StackName), BaseName) = Null
     THEN pc' = "loop" /\ idx' = idx + 1 /\ UNCHANGED prReads
     ELSE \E outcome \in PrOutcomes :
            /\ prReads' = Append(prReads, [pos |-> idx, outcome |-> outcome])
            /\ pc' = CASE outcome \in {"neterr", "badjson"} -> "rejected_isClosedPullRequest"
                       [] outcome = "closed" -> "delete"
                       [] OTHER -> "loop"
            /\ idx' = IF outcome \in {"open", "nostate", "notok"}
                      THEN idx + 1 ELSE idx
  /\ UNCHANGED << beside, envVars, sweep, hostedZoneName, zoneVars, versionVars,
                  listVars, activeVersionDeployed, now, deleteCalls,
                  changeCalls >>

\* deleteUnusedPrStacks, for (const stack of allStacks), with the read of
\* isClosedPullRequest
PrLoop ==
  /\ pc = "loop"
  /\ sweep = "pr"
  /\ IF idx > Len(allStacks)
     THEN pc' = "done" /\ idx' = idx /\ UNCHANGED prReads
     ELSE IF allStacks[idx].StackStatus = "DELETE_COMPLETE"
             \/ pullRequestId(NameOf(allStacks[idx].StackName), BaseName) = Null
     THEN pc' = "loop" /\ idx' = idx + 1 /\ UNCHANGED prReads
     ELSE \E outcome \in PrOutcomes :
            /\ prReads' = Append(prReads, [pos |-> idx, outcome |-> outcome])
            /\ pc' = CASE outcome \in {"neterr", "badjson"} -> "rejected_isClosedPullRequest"
                       [] outcome = "closed" -> "delete"
                       [] OTHER -> "loop"
            /\ idx' = IF outcome \in {"open", "nostate", "notok"}
                      THEN idx + 1 ELSE idx
  /\ UNCHANGED << beside, envVars, sweep, hostedZoneName, zoneVars, versionVars,
                  listVars, activeVersionDeployed, now, deleteCalls,
                  changeCalls >>

(***************************************************************************)
(* deleteStack                                                             *)
(***************************************************************************)
\* CloudFormation starts deleting the live stack of that name
StartDeletion(stacks, n) ==
  [k \in 1..Len(stacks) |->
     IF stacks[k].StackName = n /\ IsLive(stacks[k])
     THEN [stacks[k] EXCEPT !.StackStatus = "DELETE_IN_PROGRESS"]
     ELSE stacks[k]]

\* deleteStack going on to the records with no sleep
DeleteStackSendNoSleep ==
  /\ pc = "delete"
  /\ deleteCalls' = Append(deleteCalls,
       [pos |-> idx, StackName |-> allStacks[idx].StackName, at |-> now])
  /\ \/ /\ pc' = "rejected_DeleteStack"
        /\ UNCHANGED << store, now >>
     \/ /\ store' = StartDeletion(store, allStacks[idx].StackName)
        /\ now' = now
        /\ pc' = "cname"
  /\ UNCHANGED << beside, zoneRecs, otherZoneRecs, sweep, hostedZoneName, zoneVars,
                  versionVars, listVars, activeVersionDeployed, idx,
                  changeCalls, prReads >>

\* DeleteStackCommand, then the 60 second sleep
DeleteStackSend ==
  /\ pc = "delete"
  /\ deleteCalls' = Append(deleteCalls,
       [pos |-> idx, StackName |-> allStacks[idx].StackName, at |-> now])
  /\ \/ /\ pc' = "rejected_DeleteStack"
        /\ UNCHANGED << store, now >>
     \/ /\ store' = StartDeletion(store, allStacks[idx].StackName)
        /\ now' = now + CooldownMs
        /\ pc' = "cname"
  /\ UNCHANGED << beside, zoneRecs, otherZoneRecs, sweep, hostedZoneName, zoneVars,
                  versionVars, listVars, activeVersionDeployed, idx,
                  changeCalls, prReads >>

\* the filter of the records and ChangeResourceRecordSetsCommand; Route 53
\* applies a batch only when every record it names exists in the zone, and
\* rejects it whole (InvalidChangeBatch) otherwise
DeleteCnameRecords ==
  /\ pc = "cname"
  /\ LET matching == toDelete(cnameRecords, NameOf(allStacks[idx].StackName))
         present == \A k \in 1..Len(matching) :
                      \E j \in 1..Len(RecordSetsOf(hostedZoneId)) :
                        RecordSetsOf(hostedZoneId)[j] = matching[k]
     IN IF hostedZoneId = "undefined" \/ Len(matching) = 0
        THEN /\ pc' = "loop"
             /\ idx' = idx + 1
             /\ UNCHANGED << zoneRecs, otherZoneRecs, changeCalls >>
        ELSE \E outcome \in (IF present THEN {"ok"} ELSE {"InvalidChangeBatch"})
                              \cup {"ServiceError"} :
             /\ changeCalls' = Append(changeCalls,
                  [pos |-> idx, HostedZoneId |-> hostedZoneId,
                   records |-> matching, at |-> now, outcome |-> outcome])
             /\ IF outcome # "ok"
                THEN /\ pc' = "rejected_ChangeResourceRecordSets"
                     /\ UNCHANGED << zoneRecs, otherZoneRecs, idx >>
                ELSE /\ LET left == SelectSeq(RecordSetsOf(hostedZoneId),
                            LAMBDA r : \A k \in 1..Len(matching) : matching[k] # r)
                        IN IF hostedZoneId = "Z1"
                           THEN zoneRecs' = left /\ UNCHANGED otherZoneRecs
                           ELSE otherZoneRecs' = left /\ UNCHANGED zoneRecs
                     /\ pc' = "loop"
                     /\ idx' = idx + 1
  /\ UNCHANGED << beside, store, sweep, hostedZoneName, zoneVars, versionVars,
                  listVars, activeVersionDeployed, now, deleteCalls, prReads >>

Next ==
  \/ StartMainSweep
  \/ StartPrSweep
  \/ NoHostedZoneName
  \/ ListHostedZonesByName
  \/ ListResourceRecordSets
  \/ GetActiveVersions
  \/ ListStacks
  \/ SettlingGuard
  \/ MainLoop
  \/ PrLoop
  \/ DeleteStackSend
  \/ DeleteCnameRecords

Spec == Init /\ [][Next]_vars

(***************************************************************************)
(* listAllStacks, page by page.  CloudFormation answers a ListStacks sent  *)
(* with no NextToken by its first page, and one sent with the NextToken of *)
(* page k by page k + 1; the NextToken of page k is k, that of the last    *)
(* page is undefined (0).  A page may come with no StackSummaries.         *)
(***************************************************************************)
NoSummaries == << [StackName |-> 0, StackStatus |-> "undefined",
                   CreationTime |-> Undefined] >>

\* what a page may carry: no StackSummaries field, none, one or two summaries
PageContents ==
  { NoSummaries, <<>>, <<StackPool[12]>>, <<StackPool[16]>>,
    <<StackPool[12], StackPool[16]>> }

\* the pages of a store: every page but the last has a NextToken
PagedStores ==
  UNION { { [k \in 1..n |-> [StackSummaries |-> c[k],
                             NextToken |-> IF k < n THEN k ELSE 0]] :
              c \in [1..n -> PageContents] } : n \in 1..MaxPages }

ListingInit ==
  /\ store = <<>>
  /\ zoneRecs = <<>>
  /\ otherZoneRecs = <<>>
  /\ sweep = "none"
  /\ pc = "list"
  /\ FreshRun
  /\ NoCompany
  /\ NoWaiverCheck
  /\ pages \in PagedStores
  /\ listRequests = <<>>
  /\ NoNaming

\* one turn of the do-while stopping at a page that carries no summaries
ListAllStacksTurnUntilEmpty ==
  /\ pc = "list"
  /\ listRequests' = Append(listRequests, nextToken)
  /\ \/ /\ pc' = "rejected_ListStacks"
        /\ UNCHANGED << allStacks, nextToken >>
     \/ LET response == pages[nextToken + 1]
            none == response.StackSummaries \in {NoSummaries, <<>>}
        IN /\ allStacks' = IF none THEN allStacks
                           ELSE allStacks \o response.StackSummaries
           /\ nextToken' = response.NextToken
           /\ pc' = IF response.NextToken # 0 /\ ~none THEN "list" ELSE "listed"
  /\ UNCHANGED << envVars, sweep, hostedZoneName, zoneVars, versionVars,
                  activeVersionDeployed, idx, now, callVars, waiverVars, namingVars,
                  pages, liveVersions, other, runs >>

\* one turn of the do-while of listAllStacks
ListAllStacksTurn ==
  /\ pc = "list"
  /\ listRequests' = Append(listRequests, nextToken)
  /\ \/ /\ pc' = "rejected_ListStacks"
        /\ UNCHANGED << allStacks, nextToken >>
     \/ LET response == pages[nextToken + 1]
        IN /\ allStacks' = IF response.StackSummaries = NoSummaries THEN allStacks
                           ELSE allStacks \o response.StackSummaries
           /\ nextToken' = response.NextToken
           /\ pc' = IF response.NextToken # 0 THEN "list" ELSE "listed"
  /\ UNCHANGED << envVars, sweep, hostedZoneName, zoneVars, versionVars,
                  activeVersionDeployed, idx, now, callVars, waiverVars, namingVars,
                  pages, liveVersions, other, runs >>

ListingNext == ListAllStacksTurn

\* every ListStacks sent is answered or rejected in the end
ListingSpec == ListingInit /\ [][ListingNext]_vars /\ WF_vars(ListingNext)

(***************************************************************************)
(* calculateVersionedStackName (packages/cdkConstructs/src/config) and     *)
(* getVersion of the name it gives                                         *)
(***************************************************************************)
\* the strings of at most n characters of an alphabet
StringsUpTo(alphabet, n) == UNION { [1..k -> alphabet] : k \in 0..n }

\* version strings of lowercase letters, digits, dots and hyphens: a first
\* word (none, pr-, sandbox-) and up to MaxVersionLen characters
VersionStrings ==
  { first \o rest : first \in {<<>>, PrDash, Tail(DashSandbox) \o Dash},
                    rest \in StringsUpTo({"v", "1", ".", "-"}, MaxVersionLen) }

\* calculateVersionedStackName with the version as it is given
calculateVersionedStackNameDotted(base, v) == base \o Dash \o v

\* `${baseStackName}-${version.replaceAll(".", "-")}`
calculateVersionedStackName(base, v) == base \o Dash \o replaceAllDots(v)

NamingInit ==
  /\ store = <<>>
  /\ zoneRecs = <<>>
  /\ otherZoneRecs = <<>>
  /\ NoRun
  /\ NoWaiverCheck
  /\ NoPages
  /\ version \in VersionStrings
  /\ versionedName = <<>>
  /\ parsedVersion = NoVersion
  /\ namingStep = "version"

\* the deployment names its stack
NameStack ==
  /\ namingStep = "version"
  /\ versionedName' = calculateVersionedStackName(BaseName, version)
  /\ namingStep' = "named"
  /\ UNCHANGED << sweepVars, waiverVars, pageVars, version, parsedVersion,
                  liveVersions, other, runs >>

\* a sweep parses the name
ParseStackName ==
  /\ namingStep = "named"
  /\ parsedVersion' = getVersion(versionedName, BaseName)
  /\ namingStep' = "parsed"
  /\ UNCHANGED << sweepVars, waiverVars, pageVars, version, versionedName,
                  liveVersions, other, runs >>

NamingNext ==
  \/ NameStack
  \/ ParseStackName

NamingSpec == NamingInit /\ [][NamingNext]_vars

(***************************************************************************)
(* checkDestructiveChangeSet (packages/cdkConstructs/src/changesets/).     *)
(* Dates are numbers of days; a value that is no date is InvalidDate.      *)
(* The fields a change may lack are "undefined"; a waiver may give "null". *)
(***************************************************************************)
InvalidDate == -2
\* CreationTime of the change set, and the ExpiryDate of a waiver before
\* it, at it and after it
CreationDay == 20
ExpiredDay == 10
ActiveDay == 30

ResourceChange(logicalId, policyAction, action, replacement) ==
  [LogicalResourceId |-> logicalId, PhysicalResourceId |-> "physical-id",
   ResourceType |-> "AWS::S3::Bucket", PolicyAction |-> policyAction,
   Action |-> action, Replacement |-> replacement]

\* the changes a change set may list: a removal, a modification in place,
\* a replacement
ChangePool == <<
  ResourceChange("ResourceToRemove", "Delete", "Remove", "undefined"),
  ResourceChange("ResourceToRemove", "undefined", "Modify", "False"),
  ResourceChange("ResourceToReplace", "undefined", "Modify", "True") >>

AllowedDestructiveChange(change, policyAction, replacement, expiryDate, stackName) ==
  [LogicalResourceId |-> change.LogicalResourceId,
   PhysicalResourceId |-> change.PhysicalResourceId,
   ResourceType |-> change.ResourceType,
   PolicyAction |-> policyAction, Action |-> change.Action,
   Replacement |-> replacement, ExpiryDate |-> expiryDate,
   StackName |-> stackName]

\* the waivers a caller may give: for the removal an active one, one
\* expired, one expiring at the creation time, one of another stack, one
\* with another policy action, one with no date; for the replacement an
\* active one
WaiverPool == <<
  AllowedDestructiveChange(ChangePool[1], "Delete", "null", ActiveDay, "stack"),
  AllowedDestructiveChange(ChangePool[1], "Delete", "null", ExpiredDay, "stack"),
  AllowedDestructiveChange(ChangePool[1], "Delete", "null", CreationDay, "stack"),
  AllowedDestructiveChange(ChangePool[1], "Delete", "null", ActiveDay, "monitoring"),
  AllowedDestructiveChange(ChangePool[1], "ReplaceAndDelete", "null", ActiveDay, "stack"),
  AllowedDestructiveChange(ChangePool[1], "Delete", "null", InvalidDate, "stack"),
  AllowedDestructiveChange(ChangePool[3], "null", "True", ActiveDay, "stack") >>

\* the sequences of at most n elements of a pool
SeqsUpTo(pool, n) ==
  UNION { [1..k -> { pool[i] : i \in DOMAIN pool }] : k \in 0..n }

\* normalizeToString: undefined for undefined and null
normalizeToString(value) ==
  IF value \in {"undefined", "null"} THEN "undefined" ELSE value

isDestructiveChange(policyAction, action, replacement) ==
  \/ policyAction = "Delete"
  \/ policyAction = "ReplaceAndDelete"
  \/ action = "Remove"
  \/ replacement = "True"

\* toDate: undefined for undefined, null and what is not a date
toDate(value) == IF value \in {Undefined, InvalidDate} THEN Undefined ELSE value

\* one element of the map of checkDestructiveChanges
ChangeRequiringAttention(resourceChange) ==
  [logicalId |-> resourceChange.LogicalResourceId,
   physicalId |-> resourceChange.PhysicalResourceId,
   resourceType |-> resourceChange.ResourceType,
   policyAction |-> normalizeToString(resourceChange.PolicyAction),
   action |-> normalizeToString(resourceChange.Action),
   replacement |-> normalizeToString(resourceChange.Replacement)]

\* checkDestructiveChanges(changeSet): the map and the filter
checkDestructiveChanges(response) ==
  LET mapped == [k \in DOMAIN response.Changes |->
                   ChangeRequiringAttention(response.Changes[k])]
  IN SelectSeq(mapped, LAMBDA c :
       isDestructiveChange(c.policyAction, c.action, c.replacement))

matchesAllowedChange(change, allowed) ==
  /\ allowed.LogicalResourceId = change.logicalId
  /\ allowed.PhysicalResourceId = change.physicalId
  /\ allowed.ResourceType = change.resourceType
  /\ normalizeToString(allowed.PolicyAction) = change.policyAction
  /\ normalizeToString(allowed.Action) = change.action
  /\ normalizeToString(allowed.Replacement) = change.replacement

\* allowedChanges.find(allowed => matchesAllowedChange(change, allowed)):
\* the position of the first match, 0 when there is none
findWaiver(change, waivers) ==
  LET hits == { k \in DOMAIN waivers : matchesAllowedChange(change, waivers[k]) }
  IN IF hits = {} THEN 0 ELSE CHOOSE k \in hits : \A j \in hits : k <= j

\* the callback of destructiveChanges.filter: TRUE when the change remains
remains(change, response, waivers) ==
  LET k == findWaiver(change, waivers)
      creationTime == toDate(response.CreationTime)
  IN IF k = 0 \/ creationTime = Undefined \/ response.StackName = "undefined"
     THEN TRUE
     ELSE IF waivers[k].StackName # response.StackName THEN TRUE
     ELSE IF toDate(waivers[k].ExpiryDate) = Undefined THEN TRUE
     ELSE ~(toDate(waivers[k].ExpiryDate) > creationTime)

\* the call with its arguments: DescribeChangeSet has answered
WaiverInit ==
  /\ store = <<>>
  /\ zoneRecs = <<>>
  /\ otherZoneRecs = <<>>
  /\ NoRun
  /\ changeSet \in { [CreationTime |-> CreationDay, StackName |-> "stack",
                       Changes |-> c] : c \in SeqsUpTo(ChangePool, MaxChanges) }
  /\ allowedChanges \in SeqsUpTo(WaiverPool, MaxWaivers)
  /\ remainingChanges = <<>>
  /\ checkOutcome = "pending"
  /\ NoPages
  /\ NoNaming

\* checkDestructiveChangeSet from the response to its return or throw
CheckDestructiveChangeSet ==
  /\ checkOutcome = "pending"
  /\ remainingChanges' =
       SelectSeq(checkDestructiveChanges(changeSet),
                 LAMBDA change : remains(change, changeSet, allowedChanges))
  /\ checkOutcome' = IF Len(remainingChanges') = 0 THEN "returned" ELSE "thrown"
  /\ UNCHANGED << sweepVars, pageVars, namingVars, changeSet, allowedChanges,
                  liveVersions, other, runs >>

WaiverNext == CheckDestructiveChangeSet

WaiverSpec == WaiverInit /\ [][WaiverNext]_vars

(***************************************************************************)
(* A promotion or a rollback while deleteUnusedMainStacks runs.  APIM      *)
(* reports liveVersions; a promotion or a rollback makes the version of a  *)
(* deployed stack the live one.  getActiveApiVersion returns what the      *)
(* status endpoint reports when it is fetched, or fails.                   *)
(***************************************************************************)
\* a stack of that version and variant is deployed
DeployedIn(stacks, v, isSandbox) ==
  \E k \in 1..Len(stacks) :
    /\ stacks[k].StackStatus = "CREATE_COMPLETE"
    /\ getVersion(NameOf(stacks[k].StackName), BaseName)
         = [version |-> replaceAllDots(v), isSandbox |-> isSandbox]

\* the versions APIM can report over these stacks
Reportable(stacks) ==
  { lv \in ActiveVersionsValues :
      /\ DeployedIn(stacks, lv.baseEnvVersion, FALSE)
      /\ lv.sandboxEnvVersion # Null
           => DeployedIn(stacks, lv.sandboxEnvVersion, TRUE) }

\* settled stacks of the versioned names
PromotionStores ==
  { s \in Stores :
      /\ \A k \in 1..Len(s) :
           s[k] \in {StackPool[4], StackPool[8], StackPool[10]}
      /\ Reportable(s) # {} }

PromotionInit ==
  /\ store \in PromotionStores
  /\ zoneRecs = RecordsFor(store)
  /\ otherZoneRecs = OtherZoneRecords
  /\ sweep = "none"
  /\ pc = "idle"
  /\ FreshRun
  /\ liveVersions \in Reportable(store)
  /\ other = IdleRun
  /\ runs = <<>>
  /\ NoWaiverCheck
  /\ NoPages
  /\ NoNaming

\* the status endpoints answer with the live versions when they answer
ReadLiveVersions ==
  /\ GetActiveVersions
  /\ (pc' # "rejected_getActiveVersions") =>
       IF pc = "versions"
       THEN activeVersions'.baseEnvVersion = liveVersions.baseEnvVersion
       ELSE activeVersions'.sandboxEnvVersion
              \in {Null, liveVersions.sandboxEnvVersion}

\* a deployment pipeline makes another deployed version the live one
Promote ==
  /\ \E lv \in Reportable(store) :
       /\ lv # liveVersions
       /\ liveVersions' = lv
  /\ UNCHANGED << sweepVars, waiverVars, pageVars, namingVars, other, runs >>

PromotionNext ==
  \/ StartMainSweep
  \/ NoHostedZoneName
  \/ ListHostedZonesByName
  \/ ListResourceRecordSets
  \/ ReadLiveVersions
  \/ ListStacks
  \/ SettlingGuard
  \/ MainLoop
  \/ DeleteStackSend
  \/ DeleteCnameRecords
  \/ Promote

PromotionSpec == PromotionInit /\ [][PromotionNext]_vars

(***************************************************************************)
(* Two runs that overlap.  Each run has its own sweep, await and locals    *)
(* and both work on the same CloudFormation, Route 53 and clock; the       *)
(* actions of a sweep are those of the run whose turn it is, other is the  *)
(* run that waits, and Switch gives the turn to it at any await.           *)
(***************************************************************************)
\* the sweep, the await and the locals of the run whose turn it is
ThisRun ==
  [sweep |-> sweep, pc |-> pc, hostedZoneName |-> hostedZoneName,
   hostedZoneId |-> hostedZoneId, cnameRecords |-> cnameRecords,
   nextRecordName |-> nextRecordName, recordSetReads |-> recordSetReads,
   apigeeEnv |-> apigeeEnv, statusFetches |-> statusFetches,
   activeVersions |-> activeVersions, allStacks |-> allStacks,
   nextToken |-> nextToken, activeVersionDeployed |-> activeVersionDeployed,
   idx |-> idx, deleteCalls |-> deleteCalls, changeCalls |-> changeCalls,
   prReads |-> prReads]

\* a superseded unit and the active one, both settled, and a pull request unit
OverlapStores == { << StackPool[4], StackPool[8], StackPool[12] >> }

OverlapInit ==
  /\ store \in OverlapStores
  /\ zoneRecs = RecordsFor(store)
  /\ otherZoneRecs = OtherZoneRecords
  /\ sweep = "none"
  /\ pc = "idle"
  /\ FreshRun
  /\ liveVersions \in Reportable(store)
  /\ other = IdleRun
  /\ runs = <<>>
  /\ NoWaiverCheck
  /\ NoPages
  /\ NoNaming

\* the event loop goes on with the other run
Switch ==
  /\ other' = ThisRun
  /\ sweep' = other.sweep
  /\ pc' = other.pc
  /\ hostedZoneName' = other.hostedZoneName
  /\ hostedZoneId' = other.hostedZoneId
  /\ cnameRecords' = other.cnameRecords
  /\ nextRecordName' = other.nextRecordName
  /\ recordSetReads' = other.recordSetReads
  /\ apigeeEnv' = other.apigeeEnv
  /\ statusFetches' = other.statusFetches
  /\ activeVersions' = other.activeVersions
  /\ allStacks' = other.allStacks
  /\ nextToken' = other.nextToken
  /\ activeVersionDeployed' = other.activeVersionDeployed
  /\ idx' = other.idx
  /\ deleteCalls' = other.deleteCalls
  /\ changeCalls' = other.changeCalls
  /\ prReads' = other.prReads
  /\ UNCHANGED << envVars, now, waiverVars, pageVars, namingVars,
                  liveVersions, runs >>

OverlapNext ==
  \/ StartMainSweep
  \/ StartPrSweep
  \/ NoHostedZoneName
  \/ ListHostedZonesByName
  \/ ListResourceRecordSets
  \/ ReadLiveVersions
  \/ ListStacks
  \/ SettlingGuard
  \/ MainLoop
  \/ PrLoop
  \/ DeleteStackSend
  \/ DeleteCnameRecords
  \/ Switch

OverlapSpec == OverlapInit /\ [][OverlapNext]_vars

(***************************************************************************)
(* Runs one after the other over the same CloudFormation and Route 53:     *)
(* when a run has returned or rejected, the next one starts afresh.        *)
(* Meanwhile CloudFormation completes the deletions it has started; the    *)
(* summary of a deleted stack stays listed with status DELETE_COMPLETE.    *)
(***************************************************************************)
Ended == {"done", "skipped"} \cup Rejected

RerunInit ==
  /\ store \in OverlapStores
  /\ zoneRecs = RecordsFor(store)
  /\ otherZoneRecs = OtherZoneRecords
  /\ sweep = "none"
  /\ pc = "idle"
  /\ FreshRun
  /\ liveVersions \in Reportable(store)
  /\ other = IdleRun
  /\ runs = <<>>
  /\ NoWaiverCheck
  /\ NoPages
  /\ NoNaming

\* CloudFormation completes the deletion of a stack
DeletionCompletes ==
  /\ \E k \in 1..Len(store) :
       /\ store[k].StackStatus = "DELETE_IN_PROGRESS"
       /\ store' = [store EXCEPT ![k].StackStatus = "DELETE_COMPLETE"]
  /\ UNCHANGED << zoneRecs, otherZoneRecs, sweep, pc, hostedZoneName, zoneVars,
                  versionVars, listVars, activeVersionDeployed, idx, now,
                  callVars, waiverVars, pageVars, namingVars, liveVersions,
                  other, runs >>

\* the run has ended; the sweep is called again
NextRun ==
  /\ pc \in Ended
  /\ Len(runs) + 1 < MaxRuns
  /\ runs' = Append(runs, ThisRun)
  /\ sweep' = IdleRun.sweep
  /\ pc' = IdleRun.pc
  /\ hostedZoneName' = IdleRun.hostedZoneName
  /\ hostedZoneId' = IdleRun.hostedZoneId
  /\ cnameRecords' = IdleRun.cnameRecords
  /\ nextRecordName' = IdleRun.nextRecordName
  /\ recordSetReads' = IdleRun.recordSetReads
  /\ apigeeEnv' = IdleRun.apigeeEnv
  /\ statusFetches' = IdleRun.statusFetches
  /\ activeVersions' = IdleRun.activeVersions
  /\ allStacks' = IdleRun.allStacks
  /\ nextToken' = IdleRun.nextToken
  /\ activeVersionDeployed' = IdleRun.activeVersionDeployed
  /\ idx' = IdleRun.idx
  /\ deleteCalls' = IdleRun.deleteCalls
  /\ changeCalls' = IdleRun.changeCalls
  /\ prReads' = IdleRun.prReads
  /\ UNCHANGED << envVars, now, waiverVars, pageVars, namingVars,
                  liveVersions, other >>

RerunNext ==
  \/ StartMainSweep
  \/ StartPrSweep
  \/ NoHostedZoneName
  \/ ListHostedZonesByName
  \/ ListResourceRecordSets
  \/ ReadLiveVersions
  \/ ListStacks
  \/ SettlingGuard
  \/ MainLoop
  \/ PrLoop
  \/ DeleteStackSend
  \/ DeleteCnameRecords
  \/ DeletionCompletes
  \/ NextRun

RerunSpec == RerunInit /\ [][RerunNext]_vars

(***************************************************************************)
(* Vocabulary of the properties.  The units are described by UnitShapes,   *)
(* not by the parsing code, and the calls by what was sent.                *)
(***************************************************************************)
\* the listing is complete: the sweep is at its guard, in its loop or over
ListingDone ==
  pc \in {"guard", "loop", "delete", "cname", "done", "skipped",
          "rejected_isClosedPullRequest", "rejected_DeleteStack",
          "rejected_ChangeResourceRecordSets"}

Positions == 1..Len(allStacks)
Shape(pos) == ShapeOf(allStacks[pos].StackName)

\* the active version a unit is compared with, dots as hyphens; Null if unknown
ActiveVersionFor(pos) ==
  LET v == IF Shape(pos).sandbox THEN activeVersions.sandboxEnvVersion
           ELSE activeVersions.baseEnvVersion
  IN IF v = Null THEN Null ELSE replaceAllDots(v)

\* the unit carries the version that is active for its variant
IsActiveUnit(pos) ==
  /\ Shape(pos).kind = "VERSIONED"
  /\ ActiveVersionFor(pos) # Null
  /\ Shape(pos).id = ActiveVersionFor(pos)

DeleteSentFor(pos) == \E k \in DOMAIN deleteCalls : deleteCalls[k].pos = pos
TimesDeleteSentFor(pos) ==
  Cardinality({ k \in DOMAIN deleteCalls : deleteCalls[k].pos = pos })

\* the outcome of the GitHub read made for a unit, "unread" if none was made
ReadOutcome(pos) ==
  IF \E k \in DOMAIN prReads : prReads[k].pos = pos
  THEN prReads[CHOOSE k \in DOMAIN prReads : prReads[k].pos = pos].outcome
  ELSE "unread"

\* the record r was part of a ChangeResourceRecordSets batch
RecordSubmitted(r) ==
  \E k \in DOMAIN changeCalls :
    \E j \in DOMAIN changeCalls[k].records : changeCalls[k].records[j] = r

\* the CNAME record that belongs to the unit at pos
AliasOf(pos) == RecordSet(allStacks[pos].StackName, "CNAME")

\* Date.now() when the loop examined the unit: every DeleteStack sent for an
\* earlier position was followed by one cooldown
DecidedAt(pos) ==
  StartTime + CooldownMs
    * Cardinality({ k \in DOMAIN deleteCalls : deleteCalls[k].pos < pos })

(***************************************************************************)
(* C1  Embargo.  deleteUnusedMainStacks sends no DeleteStack for a          *)
(* versioned unit created less than 24 hours before the moment the loop    *)
(* decides it, whatever the active versions and the settling guard.        *)
(***************************************************************************)
C1_EmbargoedNeverDeleted ==
  sweep = "main" =>
    \A k \in DOMAIN deleteCalls :
      Shape(deleteCalls[k].pos).kind = "VERSIONED" =>
        ~(deleteCalls[k].at - allStacks[deleteCalls[k].pos].CreationTime < EmbargoMs)

\* a run that deleted a unit and went past a superseded unit still embargoed
C1_Witness ==
  /\ sweep = "main"
  /\ pc = "done"
  /\ deleteCalls # <<>>
  /\ \E pos \in Positions :
       /\ IsLive(allStacks[pos])
       /\ Shape(pos).kind = "VERSIONED"
       /\ ActiveVersionFor(pos) # Null
       /\ ~IsActiveUnit(pos)
       /\ now - allStacks[pos].CreationTime < EmbargoMs
       /\ ~DeleteSentFor(pos)

(***************************************************************************)
(* C2  Settling guard.  If the live non-sandbox unit whose version is the  *)
(* active base version was created less than 24 hours before the run, the  *)
(* run sends no DeleteStack and no alias deletion.                         *)
(***************************************************************************)
FreshActiveUnit(pos) ==
  /\ IsLive(allStacks[pos])
  /\ ~Shape(pos).sandbox
  /\ IsActiveUnit(pos)
  /\ StartTime - allStacks[pos].CreationTime < EmbargoMs

C2_FreshActiveBlocksAll ==
  (sweep = "main" /\ ListingDone /\ \E pos \in Positions : FreshActiveUnit(pos))
    => (deleteCalls = <<>> /\ changeCalls = <<>>)

\* C2 holds of the runs in which no DELETE_COMPLETE summary carries the
\* active version: the guard takes the first summary found, whatever its status
C2_HoldsWithoutTerminalActive ==
  (sweep = "main" /\ ListingDone
     /\ (\E pos \in Positions : FreshActiveUnit(pos))
     /\ ~\E pos \in Positions :
           ~IsLive(allStacks[pos]) /\ ~Shape(pos).sandbox /\ IsActiveUnit(pos))
    => (deleteCalls = <<>> /\ changeCalls = <<>>)

(***************************************************************************)
(* C3  If no enumerated non-sandbox unit has the active base version, the  *)
(* run sends no DeleteStack.                                               *)
(***************************************************************************)
C3_NoActiveUnitBlocksAll ==
  (sweep = "main" /\ ListingDone
     /\ ~\E pos \in Positions : ~Shape(pos).sandbox /\ IsActiveUnit(pos))
    => deleteCalls = <<>>

(***************************************************************************)
(* C4  deleteUnusedMainStacks never sends DeleteStack for a non-sandbox    *)
(* unit whose version is baseEnvVersion, nor for a sandbox unit whose      *)
(* version is sandboxEnvVersion ('.' read as '-'), whatever its age.       *)
(***************************************************************************)
C4_ActiveVersionNeverDeleted ==
  sweep = "main" =>
    \A k \in DOMAIN deleteCalls : ~IsActiveUnit(deleteCalls[k].pos)

\* a completed run that deleted a unit and kept an old unit of the active
\* version
C4_Witness ==
  /\ sweep = "main"
  /\ pc = "done"
  /\ deleteCalls # <<>>
  /\ \E pos \in Positions :
       /\ IsLive(allStacks[pos])
       /\ IsActiveUnit(pos)
       /\ StartTime - allStacks[pos].CreationTime >= EmbargoMs
       /\ ~DeleteSentFor(pos)

(***************************************************************************)
(* C5  With sandboxEnvVersion null, deleteUnusedMainStacks deletes no      *)
(* sandbox unit, and a run that passes the guard and returns has deleted   *)
(* every live superseded non-sandbox unit that was 24 hours old.           *)
(***************************************************************************)
SupersededBaseUnit(pos) ==
  /\ IsLive(allStacks[pos])
  /\ Shape(pos).kind = "VERSIONED"
  /\ ~Shape(pos).sandbox
  /\ ~IsActiveUnit(pos)
  /\ StartTime - allStacks[pos].CreationTime >= EmbargoMs

C5_NullSandboxKeepsSandboxOnly ==
  (sweep = "main" /\ ListingDone /\ activeVersions.sandboxEnvVersion = Null) =>
    /\ \A k \in DOMAIN deleteCalls : ~Shape(deleteCalls[k].pos).sandbox
    /\ pc = "done" =>
         \A pos \in Positions : SupersededBaseUnit(pos) => DeleteSentFor(pos)

\* a completed run without sandbox version that kept an old sandbox unit and
\* deleted a superseded non-sandbox unit
C5_Witness ==
  /\ sweep = "main"
  /\ pc = "done"
  /\ activeVersions.sandboxEnvVersion = Null
  /\ \E pos \in Positions :
       /\ IsLive(allStacks[pos])
       /\ Shape(pos).kind = "VERSIONED"
       /\ Shape(pos).sandbox
       /\ StartTime - allStacks[pos].CreationTime >= EmbargoMs
       /\ ~DeleteSentFor(pos)
  /\ \E pos \in Positions : SupersededBaseUnit(pos) /\ DeleteSentFor(pos)

(***************************************************************************)
(* C6  deleteUnusedPrStacks deletes a unit only if the read of its pull    *)
(* request was a success response with state "closed"; any other outcome   *)
(* leads neither to the deletion of the unit nor of its alias records.     *)
(***************************************************************************)
C6_OnlyClosedDeleted ==
  sweep = "pr" =>
    \A pos \in Positions :
      /\ DeleteSentFor(pos) => ReadOutcome(pos) = "closed"
      /\ (IsLive(allStacks[pos]) /\ ReadOutcome(pos) \in PrOutcomes \ {"closed"})
           => ~RecordSubmitted(AliasOf(pos))

\* the half of C6 about the unit itself, which holds
C6_UnitOnlyIfClosed ==
  sweep = "pr" =>
    \A pos \in Positions : DeleteSentFor(pos) => ReadOutcome(pos) = "closed"

(***************************************************************************)
(* C7  An alias record is deleted only if it belongs to a unit deleted in  *)
(* the same run.                                                           *)
(***************************************************************************)
C7_AliasOnlyOfDeletedUnit ==
  \A k \in DOMAIN changeCalls :
    \A j \in DOMAIN changeCalls[k].records :
      \E d \in DOMAIN deleteCalls :
        deleteCalls[d].StackName = changeCalls[k].records[j].Name

(***************************************************************************)
(* C8  A failed deletion does not stop the sweep: when a run of            *)
(* deleteUnusedMainStacks is over, the DeleteStack of every unit to delete *)
(* has been sent, also when the deletion of another unit failed.           *)
(***************************************************************************)
ToDelete(pos) ==
  /\ IsLive(allStacks[pos])
  /\ Shape(pos).kind = "VERSIONED"
  /\ ActiveVersionFor(pos) # Null
  /\ ~IsActiveUnit(pos)
  /\ StartTime - allStacks[pos].CreationTime >= EmbargoMs

C8_DeletionFailureDoesNotStop ==
  (sweep = "main"
     /\ pc \in {"done", "rejected_DeleteStack", "rejected_ChangeResourceRecordSets"})
    => \A pos \in Positions : ToDelete(pos) => DeleteSentFor(pos)

(***************************************************************************)
(* C9  isClosedPullRequest never raises: no failure of the GitHub read     *)
(* rejects the sweep.                                                      *)
(***************************************************************************)
C9_TrackerNeverRaises == pc # "rejected_isClosedPullRequest"

(***************************************************************************)
(* C10  When the guard passes and no call fails, deleteUnusedMainStacks    *)
(* sends DeleteStack exactly once for every live versioned unit that is 24 *)
(* hours old when decided and whose version differs from the known active  *)
(* version of its variant, and for no other unit.                          *)
(***************************************************************************)
Superseded(pos) ==
  /\ IsLive(allStacks[pos])
  /\ Shape(pos).kind = "VERSIONED"
  /\ DecidedAt(pos) - allStacks[pos].CreationTime >= EmbargoMs
  /\ ActiveVersionFor(pos) # Null
  /\ Shape(pos).id # ActiveVersionFor(pos)

C10_ExactlyTheSuperseded ==
  (sweep = "main" /\ pc = "done") =>
    \A pos \in Positions :
      TimesDeleteSentFor(pos) = IF Superseded(pos) THEN 1 ELSE 0

\* a completed run that deleted two units, one of them a sandbox unit, and
\* kept another
C10_Witness ==
  /\ sweep = "main"
  /\ pc = "done"
  /\ Len(deleteCalls) = 2
  /\ \E pos \in Positions : Shape(pos).sandbox /\ DeleteSentFor(pos)
  /\ \E pos \in Positions : IsLive(allStacks[pos]) /\ ~DeleteSentFor(pos)

(***************************************************************************)
(* C11  In deleteUnusedPrStacks every live unit named {base}-pr-{digits}   *)
(* or {base}-pr-{digits}-sandbox whose pull request is reported closed is  *)
(* deleted, and the CNAME records of the index whose name contains the     *)
(* unit's name are submitted in one batch sent after the unit's            *)
(* DeleteStack; when no record matches no request is sent.                 *)
(***************************************************************************)
\* the loop has finished with the unit at pos
LoopPast(pos) == ListingDone /\ (idx > pos \/ pc = "done")

\* the positions in cnameRecords of the records whose name contains the name
MatchingRecords(pos) ==
  { j \in DOMAIN cnameRecords :
      includes(RecordName(cnameRecords[j]), NameOf(allStacks[pos].StackName)) }

BatchesFor(pos) == { k \in DOMAIN changeCalls : changeCalls[k].pos = pos }

C11_ClosedPrDeletedWithOneBatch ==
  sweep = "pr" =>
    /\ \A k \in DOMAIN changeCalls : DeleteSentFor(changeCalls[k].pos)
    /\ \A pos \in Positions :
         (LoopPast(pos) /\ IsLive(allStacks[pos])
            /\ Shape(pos).kind = "PULL_REQUEST" /\ ReadOutcome(pos) = "closed")
           => /\ TimesDeleteSentFor(pos) = 1
              /\ IF MatchingRecords(pos) = {}
                 THEN BatchesFor(pos) = {}
                 ELSE /\ Cardinality(BatchesFor(pos)) = 1
                      /\ \A k \in BatchesFor(pos) :
                           /\ Len(changeCalls[k].records) = Cardinality(MatchingRecords(pos))
                           /\ \A j \in MatchingRecords(pos) :
                                \E i \in DOMAIN changeCalls[k].records :
                                  changeCalls[k].records[i] = cnameRecords[j]

\* a closed pull request unit deleted with a batch of two records
C11_Witness ==
  /\ sweep = "pr"
  /\ pc = "done"
  /\ \E pos \in Positions :
       /\ ReadOutcome(pos) = "closed"
       /\ \E k \in BatchesFor(pos) : Len(changeCalls[k].records) = 2

\* a closed pull request unit deleted while the index holds no record of it
C11_WitnessNoRecord ==
  /\ sweep = "pr"
  /\ pc = "done"
  /\ hostedZoneId # "undefined"
  /\ \E pos \in Positions :
       ReadOutcome(pos) = "closed" /\ DeleteSentFor(pos) /\ BatchesFor(pos) = {}

(***************************************************************************)
(* C12  When hostedZoneName is omitted, or Route 53 returns no zone for    *)
(* it, both sweeps still send DeleteStack for every unit they decide to    *)
(* delete, send no ListResourceRecordSets and no ChangeResourceRecordSets. *)
(***************************************************************************)
\* getHostedZoneInfo has returned without a zone
ReturnedNoZone ==
  /\ pc \notin {"idle", "zone", "rejected_ListHostedZonesByName"}
  /\ hostedZoneId = "undefined"

\* the decision of the sweep for the unit at pos is to delete it
DecidedDelete(pos) ==
  IF sweep = "main" THEN Superseded(pos)
  ELSE /\ IsLive(allStacks[pos])
       /\ Shape(pos).kind = "PULL_REQUEST"
       /\ ReadOutcome(pos) = "closed"

C12_NoZoneDeletesStacksOnly ==
  ReturnedNoZone =>
    /\ recordSetReads = 0
    /\ changeCalls = <<>>
    /\ \A pos \in Positions :
         (LoopPast(pos) /\ DecidedDelete(pos)) => DeleteSentFor(pos)

\* a run given a zone name for which no zone is returned, over after it
\* deleted a stack whose records stay in the zone
C12_Witness ==
  /\ ReturnedNoZone
  /\ hostedZoneName
  /\ pc = "done"
  /\ \E pos \in Positions :
       /\ DeleteSentFor(pos)
       /\ \E j \in DOMAIN zoneRecs : zoneRecs[j] = AliasOf(pos)

\* a run given no zone name, over after it deleted a stack
C12_WitnessOmitted ==
  /\ ReturnedNoZone
  /\ ~hostedZoneName
  /\ pc = "done"
  /\ deleteCalls # <<>>

(***************************************************************************)
(* C13  When ListHostedZonesByName, ListResourceRecordSets or ListStacks   *)
(* rejects, the run ends with no DeleteStack and no                        *)
(* ChangeResourceRecordSets sent; and none is sent before every page of    *)
(* stacks and of record sets has been read.                                *)
(***************************************************************************)
\* allStacks names every summary CloudFormation holds, in its order
EveryStackRead ==
  /\ Len(allStacks) = Len(store)
  /\ \A k \in DOMAIN store : allStacks[k].StackName = store[k].StackName

\* cnameRecords holds every CNAME record of the zone that was read
EveryRecordRead ==
  hostedZoneId # "undefined" =>
    \A j \in DOMAIN RecordSetsOf(hostedZoneId) :
      RecordSetsOf(hostedZoneId)[j].Type = "CNAME" =>
        \E i \in DOMAIN cnameRecords :
          cnameRecords[i] = RecordSetsOf(hostedZoneId)[j]

C13_ListingFailureDeletesNothing ==
  /\ pc \in {"rejected_ListHostedZonesByName", "rejected_ListResourceRecordSets",
             "rejected_ListStacks"}
       => deleteCalls = <<>> /\ changeCalls = <<>>
  /\ (deleteCalls # <<>> \/ changeCalls # <<>>)
       => EveryStackRead /\ EveryRecordRead

\* the second page of ListStacks rejects after the records were read
C13_Witness ==
  /\ pc = "rejected_ListStacks"
  /\ nextToken > 0
  /\ cnameRecords # <<>>

\* a deletion sent after a listing of two pages of stacks and of records
C13_WitnessAllPages ==
  /\ deleteCalls # <<>>
  /\ nextToken > PageSize
  /\ nextRecordName > PageSize

(***************************************************************************)
(* C14  getActiveApiVersions never rejects because of the sandbox lookup:  *)
(* sandboxEnvVersion is non-null only when APIGEE_ENVIRONMENT is int or    *)
(* internal-dev and the sandbox fetch succeeded; when that fetch fails the *)
(* base version is returned with sandboxEnvVersion null; for every other   *)
(* environment exactly one fetch is made.                                  *)
(***************************************************************************)
\* getActiveVersions() has resolved
VersionsReturned ==
  /\ sweep = "main"
  /\ pc \in {"list", "guard", "loop", "delete", "cname", "done", "skipped",
             "rejected_ListStacks", "rejected_DeleteStack",
             "rejected_ChangeResourceRecordSets"}

HasSandbox == apigeeEnv \in {"int", "internal-dev"}

C14_SandboxLookupNeverFails ==
  /\ pc = "rejected_getActiveVersions"
       => Len(statusFetches) = 1 /\ ~statusFetches[1].ok
  /\ activeVersions.sandboxEnvVersion # Null
       => HasSandbox /\ Len(statusFetches) = 2 /\ statusFetches[2].ok
  /\ VersionsReturned
       => /\ statusFetches[1].ok
          /\ statusFetches[1].apimDomain = apigeeEnv
          /\ activeVersions.baseEnvVersion \in VersionNumbers
          /\ IF HasSandbox
             THEN /\ Len(statusFetches) = 2
                  /\ statusFetches[2].apimDomain =
                       (IF apigeeEnv = "int" THEN "sandbox"
                        ELSE "internal-dev-sandbox")
                  /\ IF statusFetches[2].ok
                     THEN activeVersions.sandboxEnvVersion \in VersionNumbers
                     ELSE activeVersions.sandboxEnvVersion = Null
             ELSE Len(statusFetches) = 1

\* in int the sandbox fetch failed, the base version came back and the run
\* went on to delete a stack
C14_Witness ==
  /\ VersionsReturned
  /\ apigeeEnv = "int"
  /\ Len(statusFetches) = 2
  /\ ~statusFetches[2].ok
  /\ pc = "done"
  /\ deleteCalls # <<>>

\* in internal-dev the sandbox version was fetched
C14_WitnessInternalDev ==
  /\ VersionsReturned
  /\ apigeeEnv = "internal-dev"
  /\ activeVersions.sandboxEnvVersion # Null

(***************************************************************************)
(* C15  When the fetch of the base environment's status does not succeed,  *)
(* getActiveApiVersions rejects, and the run of deleteUnusedMainStacks     *)
(* sends no DeleteStack and no ChangeResourceRecordSets.                   *)
(***************************************************************************)
BaseFetchFailed == statusFetches # <<>> /\ ~statusFetches[1].ok

C15_BaseFetchFailureDeletesNothing ==
  BaseFetchFailed =>
    /\ pc = "rejected_getActiveVersions"
    /\ deleteCalls = <<>>
    /\ changeCalls = <<>>

\* the base fetch failed in a run that had read the records of the zone,
\* CloudFormation holding a live versioned stack older than 24 hours
C15_Witness ==
  /\ BaseFetchFailed
  /\ cnameRecords # <<>>
  /\ \E k \in DOMAIN store :
       /\ IsLive(store[k])
       /\ ShapeOf(store[k].StackName).kind = "VERSIONED"
       /\ now - store[k].CreationTime >= EmbargoMs

(***************************************************************************)
(* C16  deleteUnusedMainStacks sends DeleteStack only for units of a       *)
(* versioned shape, never for a unit named {base}-pr-{digits}[-sandbox]    *)
(* nor for the bare {base}; deleteUnusedPrStacks sends it only for units   *)
(* named {base}-pr-{digits}[-sandbox].  No name is deleted by both.        *)
(***************************************************************************)
C16_SweepsDeleteTheirOwnShape ==
  \A k \in DOMAIN deleteCalls :
    ShapeOf(deleteCalls[k].StackName).kind =
      (IF sweep = "main" THEN "VERSIONED" ELSE "PULL_REQUEST")

\* a unit of the other sweep's shape, live and older than 24 hours, that
\* the finished loop has passed without deleting it
KeptUnitOfShape(kind) ==
  \E pos \in Positions :
    /\ Shape(pos).kind = kind
    /\ IsLive(allStacks[pos])
    /\ StartTime - allStacks[pos].CreationTime >= EmbargoMs
    /\ ~DeleteSentFor(pos)

\* the main sweep deleted a versioned unit and left an old pull request unit
C16_Witness ==
  /\ sweep = "main"
  /\ pc = "done"
  /\ deleteCalls # <<>>
  /\ KeptUnitOfShape("PULL_REQUEST")

\* the pull request sweep deleted a unit and left an old versioned unit and
\* the bare base name
C16_WitnessPr ==
  /\ sweep = "pr"
  /\ pc = "done"
  /\ deleteCalls # <<>>
  /\ KeptUnitOfShape("VERSIONED")
  /\ KeptUnitOfShape("UNRECOGNIZED")

(***************************************************************************)
(* C17  For a stack listed with status DELETE_COMPLETE neither sweep sends *)
(* a DeleteStack, reads GitHub, or sends a ChangeResourceRecordSets.       *)
(***************************************************************************)
C17_DeletedStacksLeftAlone ==
  \A pos \in Positions :
    allStacks[pos].StackStatus = "DELETE_COMPLETE" =>
      /\ ~DeleteSentFor(pos)
      /\ ReadOutcome(pos) = "unread"
      /\ BatchesFor(pos) = {}

\* the pull request sweep is over: it passed a DELETE_COMPLETE pull request
\* stack whose name still has a record, and deleted another stack
C17_Witness ==
  /\ sweep = "pr"
  /\ pc = "done"
  /\ deleteCalls # <<>>
  /\ \E pos \in Positions :
       /\ allStacks[pos].StackStatus = "DELETE_COMPLETE"
       /\ Shape(pos).kind = "PULL_REQUEST"
       /\ MatchingRecords(pos) # {}

\* the main sweep is over: it passed a DELETE_COMPLETE stack of a
\* superseded version and deleted another stack
C17_WitnessMain ==
  /\ sweep = "main"
  /\ pc = "done"
  /\ deleteCalls # <<>>
  /\ \E pos \in Positions :
       /\ allStacks[pos].StackStatus = "DELETE_COMPLETE"
       /\ Shape(pos).kind = "VERSIONED"
       /\ ActiveVersionFor(pos) # Null
       /\ Shape(pos).id # ActiveVersionFor(pos)

(***************************************************************************)
(* C18  A unit named {base}-{token} or {base}-sandbox-{token} whose token  *)
(* begins with pr- is never deleted as a versioned unit by the main sweep. *)
(* As stated: every such unit is a pull request unit, for which the pull   *)
(* request sweep reads GitHub.  As amended: the pull request sweep reads   *)
(* GitHub for it exactly when its whole name is {base}-pr-{digits} or      *)
(* {base}-pr-{digits}-sandbox; otherwise the unit is unrecognized and      *)
(* neither sweep deletes it.                                               *)
(***************************************************************************)
\* the name at pos is {base}-{token} or {base}-sandbox-{token}, the token
\* beginning with pr-
HasPrToken(pos) ==
  LET name == NameOf(allStacks[pos].StackName)
  IN \/ startsWith(name, BaseName \o Dash \o PrDash)
     \/ startsWith(name, BaseName \o DashSandbox \o Dash \o PrDash)

\* the pull request sweep has finished with the live unit at pos
PrSweepPast(pos) == sweep = "pr" /\ LoopPast(pos) /\ IsLive(allStacks[pos])

C18_PrTokenAlwaysPullRequest ==
  \A pos \in Positions :
    HasPrToken(pos) =>
      /\ sweep = "main" => ~DeleteSentFor(pos)
      /\ PrSweepPast(pos) => ReadOutcome(pos) # "unread"

C18_PrTokenNeverVersioned ==
  \A pos \in Positions :
    HasPrToken(pos) =>
      /\ sweep = "main" => ~DeleteSentFor(pos)
      /\ PrSweepPast(pos) =>
           (ReadOutcome(pos) # "unread" <=> Shape(pos).kind = "PULL_REQUEST")
      /\ Shape(pos).kind = "UNRECOGNIZED" => ~DeleteSentFor(pos)

\* the pull request sweep is over: it passed the live unit api-sandbox-pr-1
\* with no read of GitHub and read GitHub for a unit named
\* {base}-pr-{digits}-sandbox
C18_Witness ==
  /\ sweep = "pr"
  /\ pc = "done"
  /\ \E pos \in Positions :
       /\ HasPrToken(pos)
       /\ Shape(pos).kind = "UNRECOGNIZED"
       /\ IsLive(allStacks[pos])
       /\ ReadOutcome(pos) = "unread"
  /\ \E pos \in Positions :
       /\ Shape(pos).kind = "PULL_REQUEST"
       /\ Shape(pos).sandbox
       /\ ReadOutcome(pos) # "unread"

(***************************************************************************)
(* C19  The 24 hour embargo.  As stated: neither sweep sends DeleteStack   *)
(* for a unit created less than 24 hours before.  As amended: the embargo  *)
(* is that of deleteUnusedMainStacks; deleteUnusedPrStacks deletes a pull  *)
(* request unit exactly when GitHub reports its pull request closed,       *)
(* whatever the age of the unit.                                           *)
(***************************************************************************)
\* the age of the unit when its DeleteStack was sent
AgeAtCall(k) == deleteCalls[k].at - allStacks[deleteCalls[k].pos].CreationTime

C19_NoSweepDeletesWithin24h ==
  \A k \in DOMAIN deleteCalls : AgeAtCall(k) >= EmbargoMs

C19_EmbargoIsOfMainSweepOnly ==
  /\ sweep = "main" => \A k \in DOMAIN deleteCalls : AgeAtCall(k) >= EmbargoMs
  /\ \A pos \in Positions :
       (PrSweepPast(pos) /\ Shape(pos).kind = "PULL_REQUEST")
         => (DeleteSentFor(pos) <=> ReadOutcome(pos) = "closed")

\* the pull request sweep is over and deleted a closed pull request's unit
\* created an hour before
C19_Witness ==
  /\ sweep = "pr"
  /\ pc = "done"
  /\ \E k \in DOMAIN deleteCalls :
       /\ AgeAtCall(k) < EmbargoMs
       /\ ReadOutcome(deleteCalls[k].pos) = "closed"

(***************************************************************************)
(* C20  The records read, and the records deleted, are those of the zone   *)
(* named exactly hostedZoneName ("Z1"): when Route 53 returns zones none   *)
(* of which has that name, cnameRecords is empty and no                    *)
(* ChangeResourceRecordSets is sent.                                       *)
(***************************************************************************)
C20_OnlyTheNamedZone ==
  /\ hostedZoneId \notin {"undefined", "Z1"} =>
       recordSetReads = 0 /\ cnameRecords = <<>>
  /\ \A k \in DOMAIN changeCalls : changeCalls[k].HostedZoneId = "Z1"

\* records of the other zone were deleted
C20_OtherZoneRecordsDeleted ==
  /\ pc = "done"
  /\ hostedZoneId = "Z2"
  /\ Len(otherZoneRecs) < Len(OtherZoneRecords)

(***************************************************************************)
(* C21  checkDestructiveChangeSet throws exactly when the change set lists *)
(* a destructive change for which allowedChanges holds no effective        *)
(* waiver.  A waiver is effective for a change when its stack name,        *)
(* logical id, physical id, resource type, policy action, action and       *)
(* replacement are those of the change and its ExpiryDate is later than    *)
(* the CreationTime of the change set.  One effective waiver suffices,     *)
(* whatever waivers are listed before it.                                  *)
(***************************************************************************)
\* a field that is not given
Absent(v) == v \in {"undefined", "null"}
SameField(a, b) == (Absent(a) /\ Absent(b)) \/ a = b

\* the change removes or replaces a resource
Destructive(c) ==
  \/ c.PolicyAction \in {"Delete", "ReplaceAndDelete"}
  \/ c.Action = "Remove"
  \/ c.Replacement = "True"

EffectiveWaiver(w, c) ==
  /\ w.StackName = changeSet.StackName
  /\ w.LogicalResourceId = c.LogicalResourceId
  /\ w.PhysicalResourceId = c.PhysicalResourceId
  /\ w.ResourceType = c.ResourceType
  /\ SameField(w.PolicyAction, c.PolicyAction)
  /\ SameField(w.Action, c.Action)
  /\ SameField(w.Replacement, c.Replacement)
  /\ w.ExpiryDate # InvalidDate
  /\ w.ExpiryDate > changeSet.CreationTime

\* a destructive change of the change set with no effective waiver
Unwaived(c) ==
  /\ Destructive(c)
  /\ \A k \in DOMAIN allowedChanges : ~EffectiveWaiver(allowedChanges[k], c)

C21_ThrowsIffUnwaivedChange ==
  checkOutcome # "pending" =>
    (checkOutcome = "thrown"
       <=> \E k \in DOMAIN changeSet.Changes : Unwaived(changeSet.Changes[k]))

\* the check holds when the first waiver that matches a change decides
C21_FirstMatchingWaiverDecides ==
  checkOutcome # "pending" =>
    (checkOutcome = "thrown"
       <=> \E k \in DOMAIN changeSet.Changes :
             LET c == changeSet.Changes[k]
                 matching == { j \in DOMAIN allowedChanges :
                     /\ allowedChanges[j].LogicalResourceId = c.LogicalResourceId
                     /\ SameField(allowedChanges[j].PolicyAction, c.PolicyAction)
                     /\ SameField(allowedChanges[j].Replacement, c.Replacement) }
             IN /\ Destructive(c)
                /\ \/ matching = {}
                   \/ ~EffectiveWaiver(allowedChanges[
                         CHOOSE j \in matching : \A i \in matching : j <= i], c))

\* an expired waiver listed before an effective one: the check throws
C21_ShadowedWaiver ==
  /\ checkOutcome = "thrown"
  /\ Len(allowedChanges) = 2
  /\ \E k \in DOMAIN changeSet.Changes :
       /\ Destructive(changeSet.Changes[k])
       /\ EffectiveWaiver(allowedChanges[2], changeSet.Changes[k])

(***************************************************************************)
(* C22  The deletions of a run are serialized: the ChangeResourceRecordSets*)
(* of a unit is sent no earlier than 60 seconds after its DeleteStack, the *)
(* DeleteStack of the next unit only after the alias step of the previous  *)
(* one, so that two DeleteStack calls of a run are at least 60 seconds     *)
(* apart.                                                                  *)
(***************************************************************************)
C22_DeletionsSerialized ==
  /\ \A j, k \in DOMAIN deleteCalls :
       j < k => /\ deleteCalls[k].at - deleteCalls[j].at >= 60 * 1000
                /\ deleteCalls[j].pos < deleteCalls[k].pos
  /\ \A k \in DOMAIN changeCalls :
       \E j \in DOMAIN deleteCalls :
         /\ deleteCalls[j].pos = changeCalls[k].pos
         /\ changeCalls[k].at - deleteCalls[j].at >= 60 * 1000
         /\ \A i \in DOMAIN deleteCalls :
              i > j => deleteCalls[i].at >= changeCalls[k].at
  /\ pc = "cname" => now - deleteCalls[Len(deleteCalls)].at >= 60 * 1000
  /\ pc = "delete" => \A j \in DOMAIN deleteCalls : deleteCalls[j].pos < idx

\* a run that deleted two units and the records of both
C22_Witness ==
  /\ pc = "done"
  /\ Len(deleteCalls) = 2
  /\ Len(changeCalls) = 2
  /\ changeCalls[1].pos # changeCalls[2].pos

(***************************************************************************)
(* C23  The settling guard looks at live units only: the deployment time   *)
(* it uses is that of a live non-sandbox unit carrying the active version, *)
(* and is undefined when there is none; a DELETE_COMPLETE unit of that     *)
(* name neither satisfies nor blocks the guard.                            *)
(***************************************************************************)
\* the guard of deleteUnusedMainStacks has been evaluated
GuardEvaluated ==
  /\ sweep = "main"
  /\ pc \in {"loop", "delete", "cname", "done", "skipped",
             "rejected_DeleteStack", "rejected_ChangeResourceRecordSets"}

\* the creation times of the live non-sandbox units of the active version
LiveActiveTimes ==
  { allStacks[pos].CreationTime :
      pos \in { q \in Positions : /\ IsLive(allStacks[q])
                                  /\ ~Shape(q).sandbox
                                  /\ IsActiveUnit(q) } }

C23_GuardFromLiveUnitsOnly ==
  GuardEvaluated =>
    IF LiveActiveTimes = {} THEN activeVersionDeployed = Undefined
    ELSE activeVersionDeployed \in LiveActiveTimes

\* the guard passed on the time of a DELETE_COMPLETE unit while the live
\* unit of the active version is an hour old, and a unit was deleted
C23_DeletedUnitSettlesGuard ==
  /\ GuardEvaluated
  /\ deleteCalls # <<>>
  /\ \E t \in LiveActiveTimes : StartTime - t < EmbargoMs
  /\ activeVersionDeployed \notin LiveActiveTimes

(***************************************************************************)
(* C24  For a store of finitely many pages listAllStacks ends: it has then *)
(* sent one ListStacks per page, the first with no token and each other    *)
(* with the NextToken of the page before, it stops at the first page that  *)
(* carries no NextToken, and it returns the units of all pages in page     *)
(* order, a page without units adding nothing.                             *)
(***************************************************************************)
RECURSIVE UnitsOf(_)
\* the units of a sequence of pages, in page order
UnitsOf(ps) ==
  IF ps = <<>> THEN <<>>
  ELSE (IF Head(ps).StackSummaries = NoSummaries THEN <<>>
        ELSE Head(ps).StackSummaries) \o UnitsOf(Tail(ps))

C24_ListingReadsEveryPageOnce ==
  /\ [](pc = "listed" =>
          /\ Len(listRequests) = Len(pages)
          /\ \A k \in DOMAIN listRequests : listRequests[k] = k - 1
          /\ allStacks = UnitsOf(pages))
  /\ [](pc = "list" => /\ Len(listRequests) < Len(pages)
                       /\ allStacks = UnitsOf(SubSeq(pages, 1, Len(listRequests))))
  /\ <>(pc \in {"listed", "rejected_ListStacks"})

\* three pages were read, the second without units, the others with units
C24_Witness ==
  /\ pc = "listed"
  /\ Len(pages) = 3
  /\ pages[2].StackSummaries \in {NoSummaries, <<>>}
  /\ Len(allStacks) >= 2

(***************************************************************************)
(* C25  The 24 hours are a strict bound on the age in milliseconds: at     *)
(* 86 400 000 ms a unit is no longer embargoed (an active unit of that age *)
(* lets the guard pass, a superseded unit of that age is deleted), at      *)
(* 86 399 999 ms it is (the guard skips the run, the unit is kept).        *)
(***************************************************************************)
\* the age of the unit at pos when the loop examines it
AgeWhenDecided(pos) == DecidedAt(pos) - allStacks[pos].CreationTime

\* live, versioned, of a version other than the known active one
OtherVersion(pos) ==
  /\ IsLive(allStacks[pos])
  /\ Shape(pos).kind = "VERSIONED"
  /\ ActiveVersionFor(pos) # Null
  /\ Shape(pos).id # ActiveVersionFor(pos)

C25_StrictBoundAt24h ==
  /\ (GuardEvaluated /\ activeVersionDeployed # Undefined)
       => (pc = "skipped" <=> StartTime - activeVersionDeployed <= 86399999)
  /\ (sweep = "main" /\ pc = "done")
       => \A pos \in Positions :
            OtherVersion(pos) =>
              (DeleteSentFor(pos) <=> AgeWhenDecided(pos) >= 86400000)

\* the active unit is exactly 24 hours old and the guard passed; a unit of
\* another version aged 86 399 999 ms was kept and one aged 86 400 000 ms
\* deleted
C25_Witness ==
  /\ sweep = "main"
  /\ pc = "done"
  /\ StartTime - activeVersionDeployed = 86400000
  /\ \E pos \in Positions :
       OtherVersion(pos) /\ AgeWhenDecided(pos) = 86399999 /\ ~DeleteSentFor(pos)
  /\ \E pos \in Positions :
       OtherVersion(pos) /\ AgeWhenDecided(pos) = 86400000 /\ DeleteSentFor(pos)

\* the active unit is 86 399 999 ms old: the run is skipped
C25_WitnessSkipped ==
  /\ pc = "skipped"
  /\ StartTime - activeVersionDeployed = 86399999
  /\ \E pos \in Positions : OtherVersion(pos) /\ AgeWhenDecided(pos) >= 86400000

(***************************************************************************)
(* C28  Within one run no record is submitted for deletion more than once, *)
(* also when the names of two deleted units are both contained in the name *)
(* of one record.                                                          *)
(***************************************************************************)
\* the batches of the run that hold the record r
BatchesWith(r) ==
  { k \in DOMAIN changeCalls :
      \E j \in DOMAIN changeCalls[k].records : changeCalls[k].records[j] = r }

C28_RecordSubmittedOnce ==
  \A i \in DOMAIN cnameRecords : Cardinality(BatchesWith(cnameRecords[i])) <= 1

\* the record of api-pr-123 was submitted with api-pr-12 and again with
\* api-pr-123, the first batch having deleted it
C28_SubmittedTwice ==
  /\ Len(changeCalls) = 2
  /\ \E i \in DOMAIN cnameRecords :
       /\ Cardinality(BatchesWith(cnameRecords[i])) = 2
       /\ \A j \in DOMAIN zoneRecs : zoneRecs[j] # cnameRecords[i]

(***************************************************************************)
(* C30  Naming round trip.  As stated: for every version string v of       *)
(* lowercase letters, digits, dots and hyphens getVersion parses           *)
(* calculateVersionedStackName(base, v) as a non-sandbox versioned unit    *)
(* whose version is v with every dot replaced by a hyphen.  As amended:    *)
(* this holds exactly for the v that are not empty and do not begin with   *)
(* pr- or sandbox-; for the others the name is read as no versioned unit   *)
(* or as a sandbox unit.                                                   *)
(***************************************************************************)
\* v with every dot made a hyphen
Hyphenated(v) == [k \in DOMAIN v |-> IF v[k] = "." THEN "-" ELSE v[k]]

\* the name was read as the non-sandbox unit of the version
RoundTrip ==
  /\ parsedVersion # NoVersion
  /\ ~parsedVersion.isSandbox
  /\ parsedVersion.version = Hyphenated(version)

\* the first characters of the version are those of word
BeginsWith(word) ==
  /\ Len(version) >= Len(word)
  /\ \A k \in DOMAIN word : version[k] = word[k]

C30_WitnessSandbox ==
  /\ namingStep = "parsed"
  /\ version = <<"s", "a", "n", "d", "b", "o", "x", "-", "1">>
  /\ parsedVersion.isSandbox
  /\ parsedVersion.version = <<"1">>

(***************************************************************************)
(* C26  Under concurrent promotion or rollback deleteUnusedMainStacks      *)
(* never sends DeleteStack for a unit whose version is the live version    *)
(* when the DeleteStack is sent: a version made live again after the       *)
(* versions were fetched, while the run sleeps, is not deleted.            *)
(***************************************************************************)
\* the unit carries the version APIM reports for its variant
IsLiveVersionUnit(n) ==
  LET v == IF ShapeOf(n).sandbox THEN liveVersions.sandboxEnvVersion
           ELSE liveVersions.baseEnvVersion
  IN /\ ShapeOf(n).kind = "VERSIONED"
     /\ v # Null
     /\ ShapeOf(n).id = Hyphenated(v)

C26_LiveVersionNeverDeleted ==
  [][\A k \in DOMAIN deleteCalls' :
       k > Len(deleteCalls) => ~IsLiveVersionUnit(deleteCalls'[k].StackName)]_vars

\* diagnostic: the unit deleted is never of the version that was fetched
C26_FetchedVersionNeverDeleted ==
  \A k \in DOMAIN deleteCalls : ~IsActiveUnit(deleteCalls[k].pos)

\* a rollback during the sleep after a DeleteStack
C26_RollbackWhileAsleep ==
  /\ pc = "cname"
  /\ liveVersions.baseEnvVersion # activeVersions.baseEnvVersion

(***************************************************************************)
(* C27  When two sweeps overlap on the same base name, the only effect     *)
(* beyond that of a single sweep is a repeated DeleteStack on the same     *)
(* unit, which changes nothing: no unit that a single sweep would keep is  *)
(* deleted, and neither run fails because the other one has deleted a unit *)
(* or an alias record first.                                               *)
(***************************************************************************)
BothRuns == {ThisRun, other}

\* a single sweep of the kind of run r deletes the unit it listed at pos
SingleSweepDeletes(r, pos) ==
  LET n == r.allStacks[pos].StackName
      v == IF ShapeOf(n).sandbox THEN liveVersions.sandboxEnvVersion
           ELSE liveVersions.baseEnvVersion
  IN IF r.sweep = "main"
     THEN /\ ShapeOf(n).kind = "VERSIONED"
          /\ v # Null
          /\ ShapeOf(n).id # Hyphenated(v)
          /\ StartTime - r.allStacks[pos].CreationTime >= EmbargoMs
     ELSE \E k \in DOMAIN r.prReads :
            r.prReads[k].pos = pos /\ r.prReads[k].outcome = "closed"

\* run r has itself deleted the record before its batch k
DeletedBefore(r, k, rec) ==
  \E i \in 1..(k - 1) :
    /\ r.changeCalls[i].outcome = "ok"
    /\ \E j \in DOMAIN r.changeCalls[i].records : r.changeCalls[i].records[j] = rec

\* Route 53 refused a batch of run r that names no record r had deleted:
\* the record that is missing was deleted by the other run
RefusedForTheOther(r) ==
  \E k \in DOMAIN r.changeCalls :
    /\ r.changeCalls[k].outcome = "InvalidChangeBatch"
    /\ \A j \in DOMAIN r.changeCalls[k].records :
         ~DeletedBefore(r, k, r.changeCalls[k].records[j])

C27_OverlapIsBenign ==
  \A r \in BothRuns :
    /\ \A k \in DOMAIN r.deleteCalls : SingleSweepDeletes(r, r.deleteCalls[k].pos)
    /\ ~RefusedForTheOther(r)

\* diagnostic: the overlap costs no unit a single sweep would keep
C27_NoUnitLostToOverlap ==
  \A r \in BothRuns :
    \A k \in DOMAIN r.deleteCalls : SingleSweepDeletes(r, r.deleteCalls[k].pos)

\* both runs have sent DeleteStack for the same unit and neither was refused
C27_RepeatedDelete ==
  /\ \E a \in DOMAIN deleteCalls, b \in DOMAIN other.deleteCalls :
       deleteCalls[a].StackName = other.deleteCalls[b].StackName
  /\ pc = "done"
  /\ other.pc = "done"

(***************************************************************************)
(* C29  If a run stops after the DeleteStack of a unit and before the      *)
(* alias records of the unit are deleted, a later run of the same sweep    *)
(* deletes those records: no alias record of a deleted unit stays in the   *)
(* zone for ever.                                                          *)
(***************************************************************************)
\* run e stopped at the alias call of a unit whose DeleteStack it had sent
StoppedBeforeAliases(e) ==
  /\ e.pc = "rejected_ChangeResourceRecordSets"
  /\ e.hostedZoneId = "Z1"
  /\ e.changeCalls[Len(e.changeCalls)].outcome = "ServiceError"
  /\ e.deleteCalls[Len(e.deleteCalls)].pos = e.idx

\* the CNAME record of the unit run e was deleting is still in the zone
AliasLeft(e) ==
  \E j \in DOMAIN zoneRecs :
    zoneRecs[j] = RecordSet(e.allStacks[e.idx].StackName, "CNAME")

\* a run of the same sweep that has read the zone and has returned, and
\* that has not been told that the pull request of the unit is not closed
LaterRunOf(e) ==
  /\ sweep = e.sweep
  /\ hostedZoneId = "Z1"
  /\ pc = "done"
  /\ \A k \in DOMAIN prReads :
       allStacks[prReads[k].pos].StackName = e.allStacks[e.idx].StackName
         => prReads[k].outcome = "closed"

C29_LaterRunDeletesAliasesLeft ==
  \A i \in DOMAIN runs :
    (StoppedBeforeAliases(runs[i]) /\ LaterRunOf(runs[i])) => ~AliasLeft(runs[i])

\* the later run found the stack still being deleted, and deleted the record
C29_LaterRunInTime ==
  \E i \in DOMAIN runs :
    /\ StoppedBeforeAliases(runs[i])
    /\ LaterRunOf(runs[i])
    /\ ~AliasLeft(runs[i])
    /\ \E k \in DOMAIN deleteCalls :
         deleteCalls[k].StackName = runs[i].allStacks[runs[i].idx].StackName

====
